---- MODULE Spec2Model ----
(***************************************************************************)
(* Model of the promo-subscription service of PromoRemnaBot                *)
(* (src/remnawave_service.py, src/config.py).                              *)
(*                                                                         *)
(* Python strings are modelled as sequences of one-character strings, so   *)
(* that startswith, split and join are computed the way Python computes    *)
(* them.                                                                   *)
(***************************************************************************)
EXTENDS Integers, Sequences, FiniteSets, TLC

VARIABLES
    \* --- tag codec (pure functions applied to drawn inputs) ---
    uuidPrefix,     \* Config.DEFAULT_UUID_PREFIX of the running process
    cdTag,          \* the tag handed to _validate_tag / the name generator
    cdSuffix,       \* the value _generate_random_suffix returned
    cdValid,        \* result of _validate_tag(cdTag)
    cdName,         \* username built at create_promo_users line 91
    cdExtracted,    \* tag the scan routines extract from cdName
    cdpc,           \* position of the codec pipeline
    \* --- remote user directory and the scan routines ---
    users,          \* the panel's user directory (what get_all_users_v2 lists)
    scanOp,         \* the scan routine that ran last ("none" before any)
    scanTag,        \* its tag argument (None for get_tags_with_stats)
    scanned,        \* the users list that call extracted from the response
    scanResult,     \* what it returned ("raised" when it raised)
    deleteCalls,    \* the calls of sdk.users.delete_user it made, in order
    \* --- create_promo_users ---
    cpc,                \* position in create_promo_users
    arg_tag,                \* argument tag
    arg_traffic_limit_gb,   \* argument traffic_limit_gb
    arg_count,              \* argument count
    traffic_limit_bytes,\* local of the same name, in units of 1024 bytes
    loop_i,                  \* loop index of `for i in range(count)`
    cur_username,           \* name generated in the current iteration
    cur_response,           \* response of the create call of the iteration
    createCalls,        \* the sdk.users.create_user calls made, in order
    subscription_links, \* local of the same name
    created_users,      \* local of the same name
    file_url,           \* what _generate_subscription_file returned
    readCalls,          \* the get_user_by_uuid / get_user_by_short_uuid calls
    fileSaves,          \* the file_manager.save_subscription_file calls
    \* --- the bot: BotHandlers and the handlers wired in setup_bot ---
    user_sessions,      \* BotHandlers.user_sessions
    conversations,      \* state of promo_conv_handler per (chat, user) key
    lastUpdate,         \* the update processed last and what became of it
    \* --- configuration parsing (src/config.py) ---
    env_value,          \* the value of DEFAULT_INBOUND_IDS in the environment
    inbound_ids,        \* what _parse_inbound_ids returned for it
    cfgpc,              \* "input" before the call, "parsed" after it
    \* --- _extract_users_from_response on the response shapes ---
    ex_response,        \* the response the routine is applied to
    ex_result,          \* what it returned, or the fact that it raised
    expc                \* "input" before the call, "done" after it

codecVars == <<cdTag, cdSuffix, cdValid, cdName, cdExtracted, cdpc>>
scanVars == <<users, scanOp, scanTag, scanned, scanResult, deleteCalls>>
createVars == <<cpc, arg_tag, arg_traffic_limit_gb, arg_count,
                traffic_limit_bytes, loop_i, cur_username, cur_response,
                createCalls, subscription_links, created_users, file_url,
                readCalls, fileSaves>>
botVars == <<user_sessions, conversations, lastUpdate>>
configVars == <<env_value, inbound_ids, cfgpc>>
extractVars == <<ex_response, ex_result, expc>>
vars == <<uuidPrefix, codecVars, scanVars, createVars, botVars, configVars,
          extractVars>>

----------------------------------------------------------------------------
(* Bounds of the model *)

\* longest tag drawn character by character
MaxTagLen == 3

\* longest DEFAULT_INBOUND_IDS value drawn character by character
MaxEnvLen == 4

\* most users in the directories drawn user by user
MaxUsers == 2

\* largest count create_promo_users is called with
MaxCount == 2

----------------------------------------------------------------------------
(* Characters *)

\* string.ascii_lowercase
AsciiLowercase ==
    {"a","b","c","d","e","f","g","h","i","j","k","l","m",
     "n","o","p","q","r","s","t","u","v","w","x","y","z"}

\* string.ascii_uppercase
AsciiUppercase ==
    {"A","B","C","D","E","F","G","H","I","J","K","L","M",
     "N","O","P","Q","R","S","T","U","V","W","X","Y","Z"}

\* string.digits
Digits == {"0","1","2","3","4","5","6","7","8","9"}

\* allowed_chars = set(string.ascii_letters + string.digits + '_-')
allowed_chars == AsciiLowercase \cup AsciiUppercase \cup Digits \cup {"_", "-"}

\* the characters tags are drawn from: allowed ones of every class, and a
\* space, a punctuation sign and a Cyrillic letter (written as its code
\* point, one character of the Python string)
TagAlphabet == {"a", "Z", "7", "_", "-", " ", "@", "U+0442"}

\* None, as a value comparable with every string of the model
None == <<"None">>

----------------------------------------------------------------------------
(* Python string helpers *)

\* s.startswith(p)
StartsWith(s, p) ==
    /\ Len(p) <= Len(s)
    /\ SubSeq(s, 1, Len(p)) = p

\* s.split('-')
RECURSIVE Split(_)
Split(s) ==
    IF \A k \in 1..Len(s) : s[k] # "-"
    THEN <<s>>
    ELSE LET k == CHOOSE k \in 1..Len(s) :
                     /\ s[k] = "-"
                     /\ \A j \in 1..(k-1) : s[j] # "-"
         IN  <<SubSeq(s, 1, k-1)>> \o Split(SubSeq(s, k+1, Len(s)))

\* '-'.join(parts)
RECURSIVE Join(_)
Join(parts) ==
    IF parts = <<>> THEN <<>>
    ELSE IF Len(parts) = 1 THEN parts[1]
    ELSE parts[1] \o <<"-">> \o Join(Tail(parts))

----------------------------------------------------------------------------
(* Tag codec *)

\* _generate_random_suffix(length=8): default length
SuffixLength == 8

\* Values random.choices(string.ascii_lowercase + string.digits, k=8) can
\* return; the model draws the suffix from these.
Suffixes ==
    { [k \in 1..SuffixLength |-> IF k % 2 = 1 THEN "a" ELSE "7"],
      [k \in 1..SuffixLength |-> "0"] }

_validate_tag_allows_space(tag) ==
    /\ tag # <<>>
    /\ \A k \in 1..Len(tag) : tag[k] \in allowed_chars \cup {" "}

\* RemnawaveService._validate_tag
_validate_tag(tag) ==
    IF tag = <<>> THEN FALSE
    ELSE \A k \in 1..Len(tag) : tag[k] \in allowed_chars

\* username = f"{Config.DEFAULT_UUID_PREFIX}{random_suffix}-{tag}"
GenerateName(prefix, random_suffix, tag) == prefix \o random_suffix \o <<"-">> \o tag

\* The extraction shared by the three scan routines: None unless the name
\* starts with the prefix and splits into at least 3 parts, else the parts
\* from index 2 joined with '-'.
ExtractTag(username, prefix) ==
    IF StartsWith(username, prefix)
    THEN LET parts == Split(username)
         IN  IF Len(parts) >= 3
             THEN Join(SubSeq(parts, 3, Len(parts)))
             ELSE None
    ELSE None

\* os.getenv('DEFAULT_UUID_PREFIX', 'promo-'): the default
DefaultPrefix == <<"p","r","o","m","o","-">>

\* int(os.getenv('MAX_SUBSCRIPTIONS_PER_REQUEST', 100)): the default
MAX_SUBSCRIPTIONS_PER_REQUEST == 100

\* values DEFAULT_UUID_PREFIX may be configured to
Prefixes ==
    { DefaultPrefix,
      <<"v","i","p","-">>,
      <<"v","i","p","-","p","r","o","m","o","-">>,
      <<"p","r","o","m","o">> }

\* "a" * 100 of test_validation's invalid_tags
OverLongLength == 100
OverLongTag == [k \in 1..OverLongLength |-> "a"]

\* all character sequences of length 0..n over TagAlphabet
SeqsUpTo(S, n) == UNION { [1..k -> S] : k \in 0..n }

TagInputs == SeqsUpTo(TagAlphabet, MaxTagLen) \cup {OverLongTag}

\* a response that is None
NoResponse == [type |-> "none"]

\* the state of the parts a specification does not exercise
CodecIdle ==
    /\ cdTag = <<>>
    /\ cdSuffix = <<>>
    /\ cdValid = FALSE
    /\ cdName = None
    /\ cdExtracted = None
    /\ cdpc = "off"

ScanIdle ==
    /\ users = <<>>
    /\ scanOp = "none"
    /\ scanTag = None
    /\ scanned = <<>>
    /\ scanResult = [raised |-> FALSE, value |-> <<>>]
    /\ deleteCalls = <<>>

CreateIdle ==
    /\ cpc = "idle"
    /\ arg_tag = <<>>
    /\ arg_traffic_limit_gb = 0
    /\ arg_count = 0
    /\ traffic_limit_bytes = 0
    /\ loop_i = 0
    /\ cur_username = None
    /\ cur_response = NoResponse
    /\ createCalls = <<>>
    /\ subscription_links = <<>>
    /\ created_users = <<>>
    /\ file_url = <<>>
    /\ readCalls = <<>>
    /\ fileSaves = <<>>

\* an empty dict
EmptyDict == [k \in {} |-> {}]

\* no update processed yet
NoUpdate == [kind |-> "none"]

BotIdle ==
    /\ user_sessions = EmptyDict
    /\ conversations = EmptyDict
    /\ lastUpdate = NoUpdate

ConfigIdle ==
    /\ env_value = <<>>
    /\ inbound_ids = <<>>
    /\ cfgpc = "off"

ExtractIdle ==
    /\ ex_response = [type |-> "none"]
    /\ ex_result = [raised |-> FALSE, value |-> <<>>]
    /\ expc = "off"

InitCodec ==
    /\ uuidPrefix \in Prefixes
    /\ cdTag \in TagInputs
    /\ cdSuffix \in Suffixes
    /\ cdValid = FALSE
    /\ cdName = None
    /\ cdExtracted = None
    /\ cdpc = "input"
    /\ ScanIdle
    /\ CreateIdle
    /\ BotIdle
    /\ ExtractIdle
    /\ ConfigIdle

\* self._validate_tag(tag)
ValidateTag ==
    /\ cdpc = "input"
    /\ cdValid' = _validate_tag(cdTag)
    /\ cdpc' = "validated"
    /\ UNCHANGED <<uuidPrefix, cdTag, cdSuffix, cdName, cdExtracted>>
    /\ UNCHANGED <<scanVars, createVars, botVars, configVars,
                   extractVars>>

\* create_promo_users lines 90-91, reached only past the validation of line 73
GenerateUsername ==
    /\ cdpc = "validated"
    /\ cdValid
    /\ cdName' = GenerateName(uuidPrefix, cdSuffix, cdTag)
    /\ cdpc' = "named"
    /\ UNCHANGED <<uuidPrefix, cdTag, cdSuffix, cdValid, cdExtracted>>
    /\ UNCHANGED <<scanVars, createVars, botVars, configVars,
                   extractVars>>

\* the scan of the generated name (get_tags_with_stats lines 437-440)
ExtractFromUsername ==
    /\ cdpc = "named"
    /\ cdExtracted' = ExtractTag(cdName, uuidPrefix)
    /\ cdpc' = "extracted"
    /\ UNCHANGED <<uuidPrefix, cdTag, cdSuffix, cdValid, cdName>>
    /\ UNCHANGED <<scanVars, createVars, botVars, configVars,
                   extractVars>>

NextCodec == ValidateTag \/ GenerateUsername \/ ExtractFromUsername

SpecCodec == InitCodec /\ [][NextCodec]_vars

----------------------------------------------------------------------------
(* Remote user directory *)

TagSummer == <<"s","u","m","m","e","r">>
TagWinter == <<"w","i","n","t","e","r">>
\* a tag no credential of the directory carries
TagNonexistent == <<"n","o","-","t","a","g">>

QueryTags == {TagSummer, TagWinter, TagNonexistent}

\* Users the panel may hold: three credentials of the naming convention
\* with an identifier, one without a resolvable identifier, one whose name
\* has another prefix and one whose name has the prefix but only two
\* hyphen-delimited segments.
Identities ==
    { [username |-> DefaultPrefix \o <<"a","b","1","2","c","d","3","4">> \o <<"-">> \o TagSummer,
       uuid |-> <<"u","1">>],
      [username |-> DefaultPrefix \o <<"e","f","5","6","g","h","7","8">> \o <<"-">> \o TagSummer,
       uuid |-> <<"u","2">>],
      [username |-> DefaultPrefix \o <<"i","j","9","0","k","l","1","2">> \o <<"-">> \o TagWinter,
       uuid |-> <<"u","3">>],
      [username |-> DefaultPrefix \o <<"q","r","3","4","s","t","5","6">> \o <<"-">> \o TagSummer,
       uuid |-> None],
      [username |-> <<"v","i","p","-">> \o <<"a","b","1","2","c","d","3","4">> \o <<"-">> \o TagSummer,
       uuid |-> <<"u","5">>],
      [username |-> DefaultPrefix \o TagSummer,
       uuid |-> <<"u","6">>] }

\* (status, usedTrafficBytes, trafficLimitBytes) a record may carry: no
\* quota with traffic consumed, below quota, quota reached, quota exceeded
\* while disabled, and a negative quota.
UsageStates ==
    { [status |-> "ACTIVE",   usedTrafficBytes |-> 1, trafficLimitBytes |-> 0],
      [status |-> "ACTIVE",   usedTrafficBytes |-> 0, trafficLimitBytes |-> 1],
      [status |-> "ACTIVE",   usedTrafficBytes |-> 1, trafficLimitBytes |-> 1],
      [status |-> "DISABLED", usedTrafficBytes |-> 0, trafficLimitBytes |-> 1],
      [status |-> "ACTIVE",   usedTrafficBytes |-> 0, trafficLimitBytes |-> 0 - 1] }

MakeUser(id, st) ==
    [username |-> id.username, uuid |-> id.uuid, status |-> st.status,
     usedTrafficBytes |-> st.usedTrafficBytes,
     trafficLimitBytes |-> st.trafficLimitBytes]

\* directories of exactly n users with pairwise distinct identities (the
\* panel keeps usernames unique), in every order
RECURSIVE DirectoriesOfLen(_)
DirectoriesOfLen(n) ==
    IF n = 0 THEN { <<>> }
    ELSE UNION { { Append(dir, MakeUser(id, st)) :
                     id \in { i \in Identities :
                                \A k \in 1..Len(dir) : dir[k].username # i.username },
                     st \in UsageStates } : dir \in DirectoriesOfLen(n - 1) }

\* the directory of the statistics scenario: the summer pair used (one by
\* status, one by quota), winter active
ScenarioStats ==
    << [username |-> DefaultPrefix \o <<"a","b","1","2","c","d","3","4">> \o <<"-">> \o TagSummer,
        uuid |-> <<"u","1">>, status |-> "DISABLED",
        usedTrafficBytes |-> 0, trafficLimitBytes |-> 1],
       [username |-> DefaultPrefix \o <<"e","f","5","6","g","h","7","8">> \o <<"-">> \o TagSummer,
        uuid |-> <<"u","2">>, status |-> "ACTIVE",
        usedTrafficBytes |-> 1, trafficLimitBytes |-> 1],
       [username |-> DefaultPrefix \o <<"i","j","9","0","k","l","1","2">> \o <<"-">> \o TagWinter,
        uuid |-> <<"u","3">>, status |-> "ACTIVE",
        usedTrafficBytes |-> 1, trafficLimitBytes |-> 0] >>

\* the directory of the retirement scenario: four summer credentials, two
\* used and two active
ScenarioRetire ==
    << [username |-> DefaultPrefix \o <<"a","b","1","2","c","d","3","4">> \o <<"-">> \o TagSummer,
        uuid |-> <<"u","1">>, status |-> "ACTIVE",
        usedTrafficBytes |-> 1, trafficLimitBytes |-> 1],
       [username |-> DefaultPrefix \o <<"e","f","5","6","g","h","7","8">> \o <<"-">> \o TagSummer,
        uuid |-> <<"u","2">>, status |-> "ACTIVE",
        usedTrafficBytes |-> 0, trafficLimitBytes |-> 1],
       [username |-> DefaultPrefix \o <<"m","n","7","8","o","p","9","0">> \o <<"-">> \o TagSummer,
        uuid |-> <<"u","4">>, status |-> "DISABLED",
        usedTrafficBytes |-> 0, trafficLimitBytes |-> 0],
       [username |-> DefaultPrefix \o <<"u","v","1","2","w","x","3","4">> \o <<"-">> \o TagSummer,
        uuid |-> <<"u","7">>, status |-> "ACTIVE",
        usedTrafficBytes |-> 1, trafficLimitBytes |-> 0] >>

\* a used credential without identifier between two used ones with one
ScenarioNoIdentifier ==
    << [username |-> DefaultPrefix \o <<"a","b","1","2","c","d","3","4">> \o <<"-">> \o TagSummer,
        uuid |-> <<"u","1">>, status |-> "DISABLED",
        usedTrafficBytes |-> 0, trafficLimitBytes |-> 0],
       [username |-> DefaultPrefix \o <<"q","r","3","4","s","t","5","6">> \o <<"-">> \o TagSummer,
        uuid |-> None, status |-> "DISABLED",
        usedTrafficBytes |-> 0, trafficLimitBytes |-> 0],
       [username |-> DefaultPrefix \o <<"e","f","5","6","g","h","7","8">> \o <<"-">> \o TagSummer,
        uuid |-> <<"u","2">>, status |-> "ACTIVE",
        usedTrafficBytes |-> 1, trafficLimitBytes |-> 1] >>

\* the directories of at most n users, and the three scenarios
Directories(n) ==
    UNION { DirectoriesOfLen(k) : k \in 0..n }
    \cup {ScenarioStats, ScenarioRetire, ScenarioNoIdentifier}

\* Python values a list-users response is made of: None (NoResponse), a
\* list, an object with attributes, a dict with keys
PyList(items) == [type |-> "list", items |-> items]
PyObject(fields) == [type |-> "object", fields |-> fields]
PyDict(fields) == [type |-> "dict", fields |-> fields]

\* hasattr(v, name), for the attribute names 'response' and 'users'
hasattr(v, name) == v.type = "object" /\ name \in DOMAIN v.fields

\* bool(v)
PyTruthy(v) ==
    CASE v.type = "none" -> FALSE
      [] v.type = "list" -> v.items # <<>>
      [] v.type = "dict" -> DOMAIN v.fields # {}
      [] OTHER -> TRUE

\* `key in v` is a TypeError for None and for a plain object
InRaises(v) == v.type \in {"none", "object"}

\* `key in v` where it is defined: a key of a dict; no element of a list of
\* users equals the string
In(key, v) == v.type = "dict" /\ key \in DOMAIN v.fields

\* the response object of sdk.users.get_all_users_v2(): response.users
ListResponse(dir) ==
    PyObject([response |-> PyObject([users |-> PyList(dir)])])

\* lines 39-47: the value users_list is bound to, for a truthy response
UsersListOf(users_response) ==
    IF hasattr(users_response, "response")
       /\ hasattr(users_response.fields["response"], "users")
    THEN users_response.fields["response"].fields["users"]
    ELSE IF hasattr(users_response, "users")
    THEN users_response.fields["users"]
    ELSE IF users_response.type = "dict"
    THEN IF In("response", users_response)
            /\ In("users", users_response.fields["response"])
         THEN users_response.fields["response"].fields["users"]
         ELSE IF In("users", users_response)
         THEN users_response.fields["users"]
         ELSE PyList(<<>>)
    ELSE PyList(<<>>)

\* line 44: `'users' in users_response['response']` raises TypeError when
\* that value is None or an object
ExtractRaises(users_response) ==
    /\ PyTruthy(users_response)
    /\ users_response.type = "dict"
    /\ In("response", users_response)
    /\ InRaises(users_response.fields["response"])

\* RemnawaveService._extract_users_from_response, where it does not raise
_extract_users_from_response(users_response) ==
    IF ~PyTruthy(users_response) THEN <<>>
    ELSE LET users_list == UsersListOf(users_response)
         IN  IF PyTruthy(users_list) THEN users_list.items ELSE <<>>

\* Python truthiness of a uuid attribute
Truthy(v) == v # None /\ v # <<>>

----------------------------------------------------------------------------
(* get_tags_with_stats *)

\* lines 458-464: the counter a user is added to
StatsBucket(user) ==
    IF user.status = "ACTIVE"
    THEN IF user.trafficLimitBytes = 0
            \/ user.usedTrafficBytes < user.trafficLimitBytes
         THEN "active"
         ELSE "used"
    ELSE "used"

StatsStep_overwrites_entry(tag_stats, user, prefix) ==
    LET tag == ExtractTag(user.username, prefix)
    IN  IF tag = None THEN tag_stats
        ELSE LET fresh == [tag |-> tag, total |-> 0, active |-> 0, used |-> 0]
                 bucket == StatsBucket(user)
                 known == \E k \in 1..Len(tag_stats) : tag_stats[k].tag = tag
                 with == IF known THEN tag_stats ELSE Append(tag_stats, fresh)
                 idx == CHOOSE k \in 1..Len(with) : with[k].tag = tag
             IN  [with EXCEPT ![idx] =
                    [fresh EXCEPT !.total = @ + 1, ![bucket] = @ + 1]]

\* one iteration of the loop of lines 433-464; tag_stats is the dict, kept
\* as the sequence of its values in insertion order
StatsStep(tag_stats, user, prefix) ==
    LET tag == ExtractTag(user.username, prefix)
    IN  IF tag = None THEN tag_stats
        ELSE LET fresh == [tag |-> tag, total |-> 0, active |-> 0, used |-> 0]
                 bucket == StatsBucket(user)
                 known == \E k \in 1..Len(tag_stats) : tag_stats[k].tag = tag
                 with == IF known THEN tag_stats ELSE Append(tag_stats, fresh)
                 idx == CHOOSE k \in 1..Len(with) : with[k].tag = tag
             IN  [with EXCEPT ![idx] =
                    [@ EXCEPT !.total = @ + 1, ![bucket] = @ + 1]]

RECURSIVE StatsLoop(_, _, _)
StatsLoop(users_list, prefix, tag_stats) ==
    IF users_list = <<>> THEN tag_stats
    ELSE StatsLoop(Tail(users_list), prefix,
                   StatsStep(tag_stats, Head(users_list), prefix))

\* return value of get_tags_with_stats for a listing that did not raise
TagsWithStats(users_list, prefix) ==
    IF users_list = <<>> THEN <<>>
    ELSE StatsLoop(users_list, prefix, <<>>)

----------------------------------------------------------------------------
(* get_tag_preview_stats *)

\* lines 562-563
PreviewIsUsed(user) ==
    \/ user.status # "ACTIVE"
    \/ (user.trafficLimitBytes > 0
        /\ user.usedTrafficBytes >= user.trafficLimitBytes)

\* one iteration of the loop of lines 545-568
PreviewStep(stats, user, tag, prefix) ==
    LET user_tag == ExtractTag(user.username, prefix)
    IN  IF user_tag # None /\ user_tag = tag
        THEN IF PreviewIsUsed(user)
             THEN [stats EXCEPT !.total = @ + 1, !.used = @ + 1]
             ELSE [stats EXCEPT !.total = @ + 1, !.active = @ + 1]
        ELSE stats

RECURSIVE PreviewLoop(_, _, _, _)
PreviewLoop(users_list, tag, prefix, stats) ==
    IF users_list = <<>> THEN stats
    ELSE PreviewLoop(Tail(users_list), tag, prefix,
                     PreviewStep(stats, Head(users_list), tag, prefix))

ZeroStats == [total |-> 0, active |-> 0, used |-> 0]

\* return value of get_tag_preview_stats for a listing that did not raise
TagPreviewStats(users_list, tag, prefix) ==
    IF users_list = <<>> THEN ZeroStats
    ELSE PreviewLoop(users_list, tag, prefix, ZeroStats)

----------------------------------------------------------------------------
(* delete_used_subscriptions *)

DeleteIsUsed_ignores_unlimited(user) ==
    \/ user.status # "ACTIVE"
    \/ user.usedTrafficBytes >= user.trafficLimitBytes

\* lines 510-511
DeleteIsUsed(user) ==
    \/ user.status # "ACTIVE"
    \/ (user.trafficLimitBytes > 0
        /\ user.usedTrafficBytes >= user.trafficLimitBytes)

DeleteStep_counts_before_call(acc, user, tag, prefix, failing) ==
    LET user_tag == ExtractTag(user.username, prefix)
    IN  IF user_tag # None /\ user_tag = tag
        THEN LET a1 == [acc EXCEPT !.tag_users = Append(@, user)]
             IN  IF DeleteIsUsed(user) /\ Truthy(user.uuid)
                 THEN [a1 EXCEPT
                         !.calls = Append(@, [uuid |-> user.uuid,
                                              raised |-> user.uuid \in failing]),
                         !.deleted_count = @ + 1]
                 ELSE a1
        ELSE acc

\* one iteration of the loop of lines 492-522; `failing` are the uuids for
\* which sdk.users.delete_user raises
DeleteStep(acc, user, tag, prefix, failing) ==
    LET user_tag == ExtractTag(user.username, prefix)
    IN  IF user_tag # None /\ user_tag = tag
        THEN LET a1 == [acc EXCEPT !.tag_users = Append(@, user)]
             IN  IF DeleteIsUsed(user) /\ Truthy(user.uuid)
                 THEN [a1 EXCEPT
                         !.calls = Append(@, [uuid |-> user.uuid,
                                              raised |-> user.uuid \in failing]),
                         !.deleted_count =
                             IF user.uuid \in failing THEN @ ELSE @ + 1]
                 ELSE a1
        ELSE acc

RECURSIVE DeleteLoop(_, _, _, _, _)
DeleteLoop(users_list, tag, prefix, failing, acc) ==
    IF users_list = <<>> THEN acc
    ELSE DeleteLoop(Tail(users_list), tag, prefix, failing,
                    DeleteStep(acc, Head(users_list), tag, prefix, failing))

\* the identifiers delete_user may be called with for a directory
UuidsOf(dir) == { dir[k].uuid : k \in 1..Len(dir) } \ {None}

----------------------------------------------------------------------------
(* The scan routines as operations on the directory *)

InitScan ==
    /\ uuidPrefix = DefaultPrefix
    /\ CodecIdle
    /\ CreateIdle
    /\ BotIdle
    /\ ExtractIdle
    /\ ConfigIdle
    /\ users \in Directories(MaxUsers)
    /\ scanOp = "none"
    /\ scanTag = None
    /\ scanned = <<>>
    /\ scanResult = [raised |-> FALSE, value |-> <<>>]
    /\ deleteCalls = <<>>

\* what a routine extracts from the listing: the listing call raises
\* (listRaises) or returns the directory
Listed(listRaises) ==
    IF listRaises THEN <<>> ELSE _extract_users_from_response(ListResponse(users))

\* Each behaviour follows one call of one routine on the directory drawn
\* initially (a later call would start from a directory that is itself
\* drawn initially).

\* RemnawaveService.get_tags_with_stats
GetTagsWithStats(listRaises) ==
    /\ scanOp = "none"
    /\ scanOp' = "get_tags_with_stats"
    /\ scanTag' = None
    /\ scanned' = Listed(listRaises)
    /\ scanResult' = [raised |-> FALSE,
                      value |-> IF listRaises THEN <<>>
                                ELSE TagsWithStats(Listed(listRaises), uuidPrefix)]
    /\ deleteCalls' = <<>>
    /\ UNCHANGED <<uuidPrefix, codecVars, users, createVars, botVars, configVars,
                   extractVars>>

\* RemnawaveService.get_tag_preview_stats
GetTagPreviewStats(tag, listRaises) ==
    /\ scanOp = "none"
    /\ scanOp' = "get_tag_preview_stats"
    /\ scanTag' = tag
    /\ scanned' = Listed(listRaises)
    /\ scanResult' = [raised |-> FALSE,
                      value |-> IF listRaises THEN ZeroStats
                                ELSE TagPreviewStats(Listed(listRaises), tag, uuidPrefix)]
    /\ deleteCalls' = <<>>
    /\ UNCHANGED <<uuidPrefix, codecVars, users, createVars, botVars, configVars,
                   extractVars>>

\* RemnawaveService.delete_used_subscriptions
DeleteUsedSubscriptions(tag, listRaises, failing) ==
    /\ scanOp = "none"
    /\ \E acc \in { DeleteLoop(Listed(listRaises), tag, uuidPrefix, failing,
                       [tag_users |-> <<>>, deleted_count |-> 0, calls |-> <<>>]) } :
          /\ scanResult' =
               IF listRaises THEN [raised |-> TRUE, value |-> <<>>]
               ELSE IF Listed(listRaises) = <<>>
                    THEN [raised |-> FALSE, value |-> <<0, 0>>]
                    ELSE [raised |-> FALSE,
                          value |-> <<acc.deleted_count, Len(acc.tag_users)>>]
          /\ deleteCalls' = acc.calls
    /\ scanOp' = "delete_used_subscriptions"
    /\ scanTag' = tag
    /\ scanned' = Listed(listRaises)
    /\ UNCHANGED <<uuidPrefix, codecVars, users, createVars, botVars, configVars,
                   extractVars>>

NextScan ==
    \/ \E listRaises \in BOOLEAN : GetTagsWithStats(listRaises)
    \/ \E tag \in QueryTags, listRaises \in BOOLEAN : GetTagPreviewStats(tag, listRaises)
    \/ \E tag \in QueryTags, listRaises \in BOOLEAN, failing \in SUBSET UuidsOf(users) :
          DeleteUsedSubscriptions(tag, listRaises, failing)

SpecScan == InitScan /\ [][NextScan]_vars

----------------------------------------------------------------------------
(* _extract_users_from_response on the wrapper shapes of a list response *)

\* marks an attribute or key that the response does not have
Absent == [type |-> "absent"]

\* the attributes / keys 'response' and 'users' with the values r and u
Fields(r, u) ==
    [k \in (IF r.type = "absent" THEN {} ELSE {"response"})
             \cup (IF u.type = "absent" THEN {} ELSE {"users"})
       |-> IF k = "response" THEN r ELSE u]

\* what a 'users' attribute or key may hold: None, an empty list, the users
UsersSlots ==
    { Absent, NoResponse, PyList(<<>>), PyList(ScenarioStats), PyList(ScenarioRetire) }

\* what a 'response' attribute of an object may hold
ResponseAttrs ==
    { Absent, NoResponse } \cup { PyObject(Fields(Absent, u)) : u \in UsersSlots }

\* what a 'response' key of a dict may hold
ResponseItems ==
    { Absent, NoResponse } \cup { PyDict(Fields(Absent, u)) : u \in UsersSlots }

\* the responses the routine is applied to: None, objects and dicts with
\* every combination of the two wrappers
ExtractInputs ==
    { NoResponse }
    \cup { PyObject(Fields(r, u)) : r \in ResponseAttrs, u \in UsersSlots }
    \cup { PyDict(Fields(r, u)) : r \in ResponseItems, u \in UsersSlots }

InitExtract ==
    /\ uuidPrefix = DefaultPrefix
    /\ CodecIdle
    /\ ScanIdle
    /\ CreateIdle
    /\ BotIdle
    /\ ConfigIdle
    /\ ex_response \in ExtractInputs
    /\ ex_result = [raised |-> FALSE, value |-> <<>>]
    /\ expc = "input"

\* one call of _extract_users_from_response (lines 32-49)
ExtractUsersFromResponse ==
    /\ expc = "input"
    /\ ex_result' =
         IF ExtractRaises(ex_response)
         THEN [raised |-> TRUE, value |-> <<>>]
         ELSE [raised |-> FALSE,
               value |-> _extract_users_from_response(ex_response)]
    /\ expc' = "done"
    /\ UNCHANGED <<uuidPrefix, codecVars, scanVars, createVars, botVars,
                   configVars, ex_response>>

NextExtract == ExtractUsersFromResponse

SpecExtract == InitExtract /\ [][NextExtract]_vars

----------------------------------------------------------------------------
(* create_promo_users *)

\* 1024 * 1024 * 1024 bytes. Byte quantities of the create request are held
\* in units of 1024 bytes (KiB): Python integers are unbounded, TLC's are
\* 32-bit, and gb * 1024 * 1024 * 1024 exceeds them from gb = 2 on.
OneGbInKiB == 1024 * 1024

\* lines 77-81
TrafficLimitBytes(gb) ==
    IF gb <= 0 THEN OneGbInKiB ELSE gb * OneGbInKiB

\* expire_at_iso of lines 96-97: 30 days from the time of the call
ExpireAt == <<"n","o","w","+","3","0","d">>

\* CreateUserRequestDto of lines 108-116
FullRequest(name, limit_bytes, t) ==
    [username |-> name, expire_at |-> ExpireAt,
     traffic_limit_bytes |-> limit_bytes,
     traffic_limit_strategy |-> "NO_RESET",
     activate_all_inbounds |-> TRUE, status |-> "ACTIVE", tag |-> t]

\* CreateUserRequestDto of lines 128-132
MinimalRequest(name, t) ==
    [username |-> name, expire_at |-> ExpireAt, tag |-> t]

\* identifiers the panel gives a created user
PanelUuid == <<"u","u","i","d">>
PanelShortUuid == <<"s","h","o","r","t">>
\* the link the panel reports for a user
PanelSubscriptionUrl == <<"s","u","b","-","u","r","l">>

\* What create_user may return: the response object with response.uuid and
\* response.short_uuid (either may be None), a dict whose 'response' is
\* None, or nothing.
CreateResponses ==
    { [type |-> "object", uuid |-> PanelUuid, short_uuid |-> PanelShortUuid],
      [type |-> "object", uuid |-> None, short_uuid |-> PanelShortUuid],
      [type |-> "object", uuid |-> PanelUuid, short_uuid |-> None],
      [type |-> "dict_response_none"],
      NoResponse }

\* `if response:` of line 156
ResponseTruthy(resp) == resp.type # "none"

\* what a read of the created user yields: a record with a link, a record
\* without one, or an exception
ReadOutcomes == {"url", "nourl", "raise"}

\* RemnawaveService._get_real_subscription_url for an object response;
\* byUuid and byShort are the outcomes of get_user_by_uuid and
\* get_user_by_short_uuid
_get_real_subscription_url(user_id, user_response, byUuid, byShort) ==
    LET short_uuid == user_response.short_uuid
    IN  IF ~Truthy(short_uuid) THEN None
        ELSE IF Truthy(user_id) /\ byUuid = "url" THEN PanelSubscriptionUrl
        ELSE IF byShort = "url" THEN PanelSubscriptionUrl
        ELSE None

\* the read calls _get_real_subscription_url makes (lines 248-309): none
\* without a short uuid; get_user_by_uuid when there is a user id; then
\* get_user_by_short_uuid unless the first read gave the link. A call is
\* logged with what the routine made of it: a link, or none (no record, no
\* link in the record, or an exception, which lines 276 and 308 swallow),
\* and with the loop index i of the credential it is made for.
RealSubscriptionReads(user_id, user_response, byUuid, byShort) ==
    LET short_uuid == user_response.short_uuid
    IN  IF ~Truthy(short_uuid) THEN <<>>
        ELSE (IF Truthy(user_id)
              THEN << [credential |-> loop_i,
                       method |-> "get_user_by_uuid", arg |-> user_id,
                       gave_link |-> (byUuid = "url")] >>
              ELSE <<>>)
             \o
             (IF Truthy(user_id) /\ byUuid = "url"
              THEN <<>>
              ELSE << [credential |-> loop_i,
                       method |-> "get_user_by_short_uuid", arg |-> short_uuid,
                       gave_link |-> (byShort = "url")] >>)

\* "User created: "
UserCreatedText == <<"U","s","e","r"," ","c","r","e","a","t","e","d",":"," ">>

\* " (no subscription URL)"
NoSubscriptionUrlText ==
    <<" ","(","n","o"," ","s","u","b","s","c","r","i","p","t","i","o","n",
      " ","U","R","L",")">>

\* lines 158-200: the entry appended for a created user
ResultEntry(name, resp, byUuid, byShort) ==
    IF resp.type = "dict_response_none"
    THEN \* resp_data.get on None raises: the handler of lines 196-200
         UserCreatedText \o name
    ELSE LET user_id == resp.uuid
             real_subscription_url ==
                 _get_real_subscription_url(user_id, resp, byUuid, byShort)
         IN  IF real_subscription_url # None
             THEN real_subscription_url
             ELSE UserCreatedText \o name \o NoSubscriptionUrlText

\* the read calls made while that entry is computed
ResultReads(resp, byUuid, byShort) ==
    IF resp.type = "dict_response_none"
    THEN <<>>
    ELSE RealSubscriptionReads(resp.uuid, resp, byUuid, byShort)

\* tags create_promo_users is called with: a valid one (with a hyphen) and
\* one that fails validation
CreateTags == { <<"a","-","b">>, <<"a"," ","b">> }

\* traffic limits it is called with: one of each branch of line 77
TrafficLimits == { 0, 15 }

\* outcomes of one creation attempt: building the request raises, the call
\* raises, the call returns
AttemptOutcomes == {"dto_error", "raised", "returned"}

Init ==
    /\ uuidPrefix = DefaultPrefix
    /\ CodecIdle
    /\ ScanIdle
    /\ CreateIdle
    /\ BotIdle
    /\ ExtractIdle
    /\ ConfigIdle

CreatePromoUsers_skips_validation(t, gb, n) ==
    /\ cpc = "idle"
    /\ arg_tag' = t
    /\ arg_traffic_limit_gb' = gb
    /\ arg_count' = n
    /\ cpc' = "loop"
    /\ traffic_limit_bytes' = TrafficLimitBytes(gb)
    /\ UNCHANGED <<loop_i, cur_username, cur_response, createCalls,
                   subscription_links, created_users, file_url,
                   readCalls, fileSaves>>
    /\ UNCHANGED <<uuidPrefix, codecVars, scanVars, botVars, configVars,
                   extractVars>>

\* lines 71-86: entry, validation, conversion of the limit
CreatePromoUsers(t, gb, n) ==
    /\ cpc = "idle"
    /\ arg_tag' = t
    /\ arg_traffic_limit_gb' = gb
    /\ arg_count' = n
    /\ IF ~_validate_tag(t)
       THEN /\ cpc' = "raised"
            /\ UNCHANGED traffic_limit_bytes
       ELSE /\ cpc' = "loop"
            /\ traffic_limit_bytes' = TrafficLimitBytes(gb)
    /\ UNCHANGED <<loop_i, cur_username, cur_response, createCalls,
                   subscription_links, created_users, file_url,
                   readCalls, fileSaves>>
    /\ UNCHANGED <<uuidPrefix, codecVars, scanVars, botVars, configVars,
                   extractVars>>

\* The suffixes drawn for credential i of a batch. The routine only
\* concatenates the suffix into the name, so which value comes first is
\* immaterial: the first credential's suffix is fixed, and each later one
\* repeats it or differs from it.
SuffixesOfCredential(i) ==
    IF i = 0 THEN { [k \in 1..SuffixLength |-> "0"] } ELSE Suffixes

\* lines 88-91: the next iteration of the loop (the loop is left in
\* GenerateSubscriptionFile). username and response are locals of one
\* iteration: they are assigned before they are read in the next, and the
\* model forgets them when an iteration ends.
LoopHead ==
    /\ cpc = "loop"
    /\ loop_i < arg_count
    /\ \E random_suffix \in SuffixesOfCredential(loop_i) :
          cur_username' = GenerateName(uuidPrefix, random_suffix, arg_tag)
    /\ cpc' = "full"
    /\ UNCHANGED <<arg_tag, arg_traffic_limit_gb, arg_count, traffic_limit_bytes,
                   loop_i, cur_response, createCalls, subscription_links,
                   created_users, file_url, readCalls, fileSaves>>
    /\ UNCHANGED <<uuidPrefix, codecVars, scanVars, botVars, configVars,
                   extractVars>>

\* the call record of one sdk.users.create_user call; credential is the
\* loop index i of the iteration that makes the call, response what the
\* call returned
CallRecord(body, outcome, resp) ==
    [credential |-> loop_i,
     body |-> body,
     response |-> IF outcome = "returned" THEN resp ELSE NoResponse,
     outcome |-> IF outcome = "raised" THEN "raised"
                 ELSE IF ResponseTruthy(resp) THEN "record" ELSE "empty"]

FullAttempt_always_retries(outcome, resp) ==
    /\ cpc = "full"
    /\ createCalls' =
         IF outcome = "dto_error" THEN createCalls
         ELSE Append(createCalls,
                     CallRecord(FullRequest(cur_username, traffic_limit_bytes, arg_tag),
                                outcome, resp))
    /\ cpc' = "minimal"
    /\ cur_response' = IF outcome = "returned" THEN resp ELSE cur_response
    /\ UNCHANGED <<arg_tag, arg_traffic_limit_gb, arg_count, traffic_limit_bytes,
                   loop_i, cur_username, subscription_links, created_users, file_url,
                   readCalls, fileSaves>>
    /\ UNCHANGED <<uuidPrefix, codecVars, scanVars, botVars, configVars,
                   extractVars>>

\* lines 106-123: the attempt with the full parameters
FullAttempt(outcome, resp) ==
    /\ cpc = "full"
    /\ createCalls' =
         IF outcome = "dto_error" THEN createCalls
         ELSE Append(createCalls,
                     CallRecord(FullRequest(cur_username, traffic_limit_bytes, arg_tag),
                                outcome, resp))
    /\ IF outcome = "returned"
       THEN /\ cur_response' = resp
            /\ cpc' = "post"
       ELSE /\ cpc' = "minimal"
            /\ UNCHANGED cur_response
    /\ UNCHANGED <<arg_tag, arg_traffic_limit_gb, arg_count, traffic_limit_bytes,
                   loop_i, cur_username, subscription_links, created_users, file_url,
                   readCalls, fileSaves>>
    /\ UNCHANGED <<uuidPrefix, codecVars, scanVars, botVars, configVars,
                   extractVars>>

MinimalAttempt_aborts_batch(outcome, resp) ==
    /\ cpc = "minimal"
    /\ createCalls' =
         IF outcome = "dto_error" THEN createCalls
         ELSE Append(createCalls,
                     CallRecord(MinimalRequest(cur_username, arg_tag),
                                outcome, resp))
    /\ IF outcome = "returned"
       THEN /\ cur_response' = resp
            /\ cpc' = "post"
       ELSE /\ cpc' = "raised"
            /\ UNCHANGED cur_response
    /\ UNCHANGED <<arg_tag, arg_traffic_limit_gb, arg_count, traffic_limit_bytes,
                   loop_i, cur_username, subscription_links, created_users, file_url,
                   readCalls, fileSaves>>
    /\ UNCHANGED <<uuidPrefix, codecVars, scanVars, botVars, configVars,
                   extractVars>>

\* lines 123-154 and 204-206: the retry with the minimal parameters; when it
\* fails too, the exception is logged and the loop continues
MinimalAttempt(outcome, resp) ==
    /\ cpc = "minimal"
    /\ createCalls' =
         IF outcome = "dto_error" THEN createCalls
         ELSE Append(createCalls,
                     CallRecord(MinimalRequest(cur_username, arg_tag),
                                outcome, resp))
    /\ IF outcome = "returned"
       THEN /\ cur_response' = resp
            /\ cpc' = "post"
            /\ UNCHANGED <<loop_i, cur_username>>
       ELSE /\ cpc' = "loop"
            /\ loop_i' = loop_i + 1
            /\ cur_username' = None
            /\ UNCHANGED cur_response
    /\ UNCHANGED <<arg_tag, arg_traffic_limit_gb, arg_count, traffic_limit_bytes,
                   subscription_links, created_users, file_url,
                   readCalls, fileSaves>>
    /\ UNCHANGED <<uuidPrefix, codecVars, scanVars, botVars, configVars,
                   extractVars>>

PostCreate_drops_unresolved(byUuid, byShort) ==
    /\ cpc = "post"
    /\ IF ResponseTruthy(cur_response)
       THEN /\ \E entry \in { ResultEntry(cur_username, cur_response, byUuid, byShort) } :
                 IF entry = PanelSubscriptionUrl
                 THEN /\ subscription_links' = Append(subscription_links, entry)
                      /\ created_users' = Append(created_users, cur_username)
                 ELSE UNCHANGED <<subscription_links, created_users>>
            /\ readCalls' = readCalls \o ResultReads(cur_response, byUuid, byShort)
       ELSE UNCHANGED <<subscription_links, created_users, readCalls>>
    /\ loop_i' = loop_i + 1
    /\ cur_username' = None
    /\ cur_response' = NoResponse
    /\ cpc' = "loop"
    /\ UNCHANGED <<arg_tag, arg_traffic_limit_gb, arg_count, traffic_limit_bytes,
                   createCalls, file_url, fileSaves>>
    /\ UNCHANGED <<uuidPrefix, codecVars, scanVars, botVars, configVars,
                   extractVars>>

\* lines 156-202: the result entry of a created user
PostCreate(byUuid, byShort) ==
    /\ cpc = "post"
    /\ IF ResponseTruthy(cur_response)
       THEN /\ subscription_links' =
                 Append(subscription_links,
                        ResultEntry(cur_username, cur_response, byUuid, byShort))
            /\ created_users' = Append(created_users, cur_username)
            /\ readCalls' = readCalls \o ResultReads(cur_response, byUuid, byShort)
       ELSE UNCHANGED <<subscription_links, created_users, readCalls>>
    /\ loop_i' = loop_i + 1
    /\ cur_username' = None
    /\ cur_response' = NoResponse
    /\ cpc' = "loop"
    /\ UNCHANGED <<arg_tag, arg_traffic_limit_gb, arg_count, traffic_limit_bytes,
                   createCalls, file_url, fileSaves>>
    /\ UNCHANGED <<uuidPrefix, codecVars, scanVars, botVars, configVars,
                   extractVars>>

\* the path FileManager.save_subscription_file returns
SavedFilePath == <<"p","r","o","m","o","_","t","a","g",".","t","x","t">>

\* outcomes of file_manager.save_subscription_file: the path, None
\* (utils.py lines 111-113 and 119-121), or an exception
SaveOutcomes == {"saved", "none", "raised"}

GenerateSubscriptionFile_writes_created_users(saveOutcome) ==
    /\ cpc = "loop"
    /\ ~(loop_i < arg_count)
    /\ fileSaves' = Append(fileSaves, [tag |-> arg_tag,
                                       subscription_links |-> created_users,
                                       outcome |-> saveOutcome])
    /\ file_url' = IF saveOutcome = "saved" THEN SavedFilePath ELSE <<>>
    /\ cpc' = "returned"
    /\ UNCHANGED <<arg_tag, arg_traffic_limit_gb, arg_count, traffic_limit_bytes,
                   loop_i, cur_username, cur_response, createCalls,
                   subscription_links, created_users, readCalls>>
    /\ UNCHANGED <<uuidPrefix, codecVars, scanVars, botVars, configVars,
                   extractVars>>

GenerateSubscriptionFile_propagates_failure(saveOutcome) ==
    /\ cpc = "loop"
    /\ ~(loop_i < arg_count)
    /\ fileSaves' = Append(fileSaves, [tag |-> arg_tag,
                                       subscription_links |-> subscription_links,
                                       outcome |-> saveOutcome])
    /\ file_url' = IF saveOutcome = "saved" THEN SavedFilePath ELSE <<>>
    /\ cpc' = IF saveOutcome = "raised" THEN "raised" ELSE "returned"
    /\ UNCHANGED <<arg_tag, arg_traffic_limit_gb, arg_count, traffic_limit_bytes,
                   loop_i, cur_username, cur_response, createCalls,
                   subscription_links, created_users, readCalls>>
    /\ UNCHANGED <<uuidPrefix, codecVars, scanVars, botVars, configVars,
                   extractVars>>

\* the loop of line 88 is exhausted; lines 208-212 with
\* _generate_subscription_file (lines 409-417): the file is saved, or
\* save_subscription_file returns None, or it raises
GenerateSubscriptionFile(saveOutcome) ==
    /\ cpc = "loop"
    /\ ~(loop_i < arg_count)
    /\ fileSaves' = Append(fileSaves, [tag |-> arg_tag,
                                       subscription_links |-> subscription_links,
                                       outcome |-> saveOutcome])
    /\ file_url' = IF saveOutcome = "saved" THEN SavedFilePath ELSE <<>>
    /\ cpc' = "returned"
    /\ UNCHANGED <<arg_tag, arg_traffic_limit_gb, arg_count, traffic_limit_bytes,
                   loop_i, cur_username, cur_response, createCalls,
                   subscription_links, created_users, readCalls>>
    /\ UNCHANGED <<uuidPrefix, codecVars, scanVars, botVars, configVars,
                   extractVars>>

\* counts create_promo_users is called with: negative, zero and up to MaxCount
Counts == (0 - 1)..MaxCount

Next ==
    \/ \E t \in CreateTags, gb \in TrafficLimits, n \in Counts :
          CreatePromoUsers(t, gb, n)
    \/ LoopHead
    \/ \E outcome \in AttemptOutcomes, resp \in CreateResponses :
          FullAttempt(outcome, resp)
    \/ \E outcome \in AttemptOutcomes, resp \in CreateResponses :
          MinimalAttempt(outcome, resp)
    \/ \E byUuid \in ReadOutcomes, byShort \in ReadOutcomes :
          PostCreate(byUuid, byShort)
    \/ \E saveOutcome \in SaveOutcomes :
          GenerateSubscriptionFile(saveOutcome)

Spec == Init /\ [][Next]_vars

----------------------------------------------------------------------------
(* The bot: BotHandlers (src/bot_handlers.py) behind the handlers that      *)
(* RemnawaveBot.setup_bot (src/main.py) registers. All handlers are in one  *)
(* group, so an update goes to the first registered handler that accepts it *)
(* and to no other.                                                         *)

\* Python dicts as functions on the set of their keys
HasKey(d, k) == k \in DOMAIN d
DictPut(d, k, v) == [x \in (DOMAIN d) \cup {k} |-> IF x = k THEN v ELSE d[x]]
DictDel(d, k) == [x \in (DOMAIN d) \ {k} |-> d[x]]

\* conversation states of bot_handlers.py lines 17-18 and ConversationHandler.END
WAITING_TAG == "WAITING_TAG"
WAITING_TRAFFIC == "WAITING_TRAFFIC"
WAITING_COUNT == "WAITING_COUNT"
WAITING_CONFIRMATION == "WAITING_CONFIRMATION"
END == "END"

\* Config.ADMIN_USER_IDS as configured, and the callers that reach the bot:
\* the admin and one caller outside the list
ADMIN_USER_IDS == {11}
Callers == ADMIN_USER_IDS \cup {99}

\* BotHandlers._is_admin
_is_admin(user_id) == user_id \in ADMIN_USER_IDS

\* callback data of the buttons (lines 50-69, 296-297, 451, 497-499) and the
\* names of the commands, as Python strings
CreatePromo == <<"c","r","e","a","t","e","_","p","r","o","m","o">>
MainMenu == <<"m","a","i","n","_","m","e","n","u">>
ConfirmCreate == <<"c","o","n","f","i","r","m","_","c","r","e","a","t","e">>
DeleteUsed == <<"d","e","l","e","t","e","_","u","s","e","d">>
Stats == <<"s","t","a","t","s">>
Traffic15 == <<"t","r","a","f","f","i","c","_","1","5">>
Traffic100 == <<"t","r","a","f","f","i","c","_","1","0","0">>
Traffic20 == <<"t","r","a","f","f","i","c","_","2","0">>
DeleteTagPrefix == <<"d","e","l","e","t","e","_","t","a","g","_">>
ConfirmDeletePrefix == <<"c","o","n","f","i","r","m","_","d","e","l","e","t","e","_">>
StartName == <<"s","t","a","r","t">>
CancelName == <<"c","a","n","c","e","l">>

\* the tags of the campaigns the panel holds: one plain, and two valid tags
\* that contain the text of a button prefix
TagDeleteTagged == DeleteTagPrefix \o <<"7">>
TagConfirmTagged == ConfirmDeletePrefix \o <<"7">>
PanelTags == {TagSummer, TagDeleteTagged, TagConfirmTagged}

\* data matching ^traffic_\d+$: two keys of traffic_map and one that is none
TrafficData == {Traffic15, Traffic100, Traffic20}

\* the data of the tag buttons delete_used_callback (line 451) and
\* delete_tag_callback (line 497) build for the campaigns of the panel
DeleteTagData == { DeleteTagPrefix \o t : t \in PanelTags }
ConfirmDeleteData == { ConfirmDeletePrefix \o t : t \in PanelTags }

\* the callback data callers send
CallbackData ==
    {CreatePromo, MainMenu, ConfirmCreate, DeleteUsed, Stats}
        \cup TrafficData \cup DeleteTagData \cup ConfirmDeleteData

\* traffic_map of handle_traffic_limit (lines 222-227), for the drawn data
traffic_map ==
    [d \in {Traffic15, Traffic100} |->
        IF d = Traffic15 THEN 15 ELSE 100]

\* texts of the messages callers send (none starts with '/')
MessageTexts ==
    { <<"a","b">>, <<"a"," ","b">>, <<"a","@">>, <<"2">>, <<"0">>,
      <<"1","0","1">>, <<" ","2"," ">> }

\* str.strip() for the space character
RECURSIVE LStrip(_)
LStrip(s) == IF s # <<>> /\ Head(s) = " " THEN LStrip(Tail(s)) ELSE s
RECURSIVE RStrip(_)
RStrip(s) ==
    IF s # <<>> /\ s[Len(s)] = " " THEN RStrip(SubSeq(s, 1, Len(s) - 1)) ELSE s
Strip(s) == RStrip(LStrip(s))

\* value of a decimal digit
DigitValue(c) ==
    CASE c = "0" -> 0 [] c = "1" -> 1 [] c = "2" -> 2 [] c = "3" -> 3
      [] c = "4" -> 4 [] c = "5" -> 5 [] c = "6" -> 6 [] c = "7" -> 7
      [] c = "8" -> 8 [] c = "9" -> 9

\* int(s) for an unsigned or signed run of ASCII digits; ValueError otherwise
IsIntLiteral(s) ==
    LET body == IF s # <<>> /\ Head(s) \in {"+", "-"} THEN Tail(s) ELSE s
    IN  /\ body # <<>>
        /\ \A k \in 1..Len(body) : body[k] \in Digits
RECURSIVE DigitsValue(_)
DigitsValue(s) ==
    IF s = <<>> THEN 0
    ELSE 10 * DigitsValue(SubSeq(s, 1, Len(s) - 1)) + DigitValue(s[Len(s)])
IntOf(s) ==
    IF Head(s) = "-" THEN 0 - DigitsValue(Tail(s))
    ELSE IF Head(s) = "+" THEN DigitsValue(Tail(s))
    ELSE DigitsValue(s)

\* outcome of a handler: the sessions it leaves, its return value or the
\* fact that it raised, and the calls of RemnawaveService methods it made
Returned(sessions, state) ==
    [user_sessions |-> sessions, raised |-> FALSE, returned |-> state,
     calls |-> <<>>]
Raised(sessions) ==
    [user_sessions |-> sessions, raised |-> TRUE, returned |-> "none",
     calls |-> <<>>]

\* a call of a RemnawaveService method, and an outcome with the calls made
ServiceCall(method, args) == [method |-> method, args |-> args]
Calling(outcome, calls) == [outcome EXCEPT !.calls = calls]

\* s.replace(old, "") for a non-empty old: every occurrence of old, found
\* left to right without overlap, is removed
RECURSIVE Replace(_, _)
Replace(s, old) ==
    IF Len(s) < Len(old) THEN s
    ELSE IF SubSeq(s, 1, Len(old)) = old
         THEN Replace(SubSeq(s, Len(old) + 1, Len(s)), old)
         ELSE <<Head(s)>> \o Replace(Tail(s), old)

\* How the Telegram calls of a handler fare: all succeed, the first one
\* (query.answer, or deleting the previous bot message) fails, or a later
\* one that sends or edits a message fails.
TelegramOutcomes == {"ok", "first_fails", "reply_fails"}

\* the id of the message a callback query belongs to / of a message sent
QueryMessageId == "query_message"
SentMessageId == "sent_message"

\* BotHandlers.start_command
start_command(user_id, sessions, tg) ==
    IF tg # "ok" THEN Raised(sessions) ELSE Returned(sessions, END)

\* BotHandlers.main_menu_callback
main_menu_callback(user_id, sessions, tg) ==
    IF tg # "ok" THEN Raised(sessions) ELSE Returned(sessions, END)

\* BotHandlers.create_promo_callback
create_promo_callback(user_id, sessions, tg) ==
    IF tg = "first_fails" THEN Raised(sessions)
    ELSE LET fresh == DictPut(EmptyDict, "last_message_id", QueryMessageId)
             after == DictPut(sessions, user_id, fresh)
         IN  IF tg = "reply_fails" THEN Raised(after)
             ELSE Returned(after, WAITING_TAG)

\* BotHandlers._delete_previous_bot_messages
_delete_previous_bot_messages(user_session, tg) ==
    IF HasKey(user_session, "last_message_id") /\ tg # "first_fails"
    THEN DictDel(user_session, "last_message_id")
    ELSE user_session

\* BotHandlers.handle_tag_input: lines 131-145. Line 145 calls
\* self.remnawave_service._normalize_tag, which RemnawaveService does not
\* define: the call raises AttributeError and lines 147-205 never run.
handle_tag_input(user_id, sessions, text, tg) ==
    LET after == IF HasKey(sessions, user_id)
                 THEN DictPut(sessions, user_id,
                              _delete_previous_bot_messages(sessions[user_id], tg))
                 ELSE sessions
    IN  Raised(after)

\* BotHandlers.handle_traffic_limit
handle_traffic_limit(user_id, sessions, data, tg) ==
    IF tg = "first_fails" THEN Raised(sessions)
    ELSE IF ~HasKey(sessions, user_id)
         THEN IF tg = "reply_fails" THEN Raised(sessions)
              ELSE Returned(sessions, END)
    ELSE IF ~HasKey(traffic_map, data) THEN Returned(sessions, END)
    ELSE LET after == DictPut(sessions, user_id,
                         DictPut(sessions[user_id], "traffic_limit", traffic_map[data]))
         IN  IF ~HasKey(sessions[user_id], "tag") THEN Raised(after)
             ELSE IF tg = "reply_fails" THEN Raised(after)
             ELSE Returned(after, WAITING_COUNT)

\* BotHandlers.handle_count_input
handle_count_input(user_id, sessions, text, tg) ==
    IF ~HasKey(sessions, user_id) THEN Returned(sessions, END)
    ELSE LET stripped == Strip(text)
             valid == /\ IsIntLiteral(stripped)
                      /\ IntOf(stripped) >= 1
                      /\ IntOf(stripped) <= MAX_SUBSCRIPTIONS_PER_REQUEST
             session == sessions[user_id]
         IN  IF ~valid
             THEN \* lines 265-288: a failing edit is logged, not raised
                  IF HasKey(session, "last_message_id") \/ tg = "reply_fails"
                  THEN Returned(sessions, WAITING_COUNT)
                  ELSE Returned(DictPut(sessions, user_id,
                                   DictPut(session, "last_message_id", SentMessageId)),
                                WAITING_COUNT)
             ELSE LET counted == DictPut(session, "count", IntOf(stripped))
                  IN  IF ~HasKey(session, "tag") \/ ~HasKey(session, "traffic_limit")
                      THEN Raised(DictPut(sessions, user_id, counted))
                      ELSE \* lines 307-332: edit, or send a new message when
                           \* there is none to edit or the edit fails
                           IF HasKey(session, "last_message_id") /\ tg # "reply_fails"
                           THEN Returned(DictPut(sessions, user_id, counted),
                                         WAITING_CONFIRMATION)
                           ELSE Returned(DictPut(sessions, user_id,
                                            DictPut(counted, "last_message_id",
                                                    SentMessageId)),
                                         WAITING_CONFIRMATION)

\* BotHandlers.confirm_create_callback; create_promo_users returns or raises
\* in both cases the session is cleaned up (lines 416-418), unless a Telegram
\* call of the handler itself raises
confirm_create_callback(user_id, sessions, tg) ==
    IF tg = "first_fails" THEN Raised(sessions)
    ELSE IF ~HasKey(sessions, user_id)
         THEN IF tg = "reply_fails" THEN Raised(sessions)
              ELSE Returned(sessions, END)
    ELSE IF \/ ~HasKey(sessions[user_id], "tag")
            \/ ~HasKey(sessions[user_id], "traffic_limit")
            \/ ~HasKey(sessions[user_id], "count")
         THEN Raised(sessions)
    ELSE IF tg = "reply_fails" THEN Raised(sessions)
    ELSE Calling(Returned(DictDel(sessions, user_id), END),
                 << ServiceCall("create_promo_users",
                                << sessions[user_id].tag,
                                   sessions[user_id].traffic_limit,
                                   sessions[user_id].count >>) >>)

\* BotHandlers.delete_used_callback: lists the campaigns of the panel, one
\* button 'delete_tag_<tag>' per campaign. A failure of the listing is
\* caught (lines 461-467) and the handler returns END all the same.
delete_used_callback(user_id, sessions, tg) ==
    IF tg # "ok" THEN Raised(sessions)
    ELSE Calling(Returned(sessions, END),
                 << ServiceCall("get_tags_with_stats", <<>>) >>)

\* BotHandlers.delete_tag_callback: the tag is what line 477 leaves of the
\* callback data; the preview is asked for that tag
delete_tag_callback(user_id, sessions, data, tg) ==
    IF tg # "ok" THEN Raised(sessions)
    ELSE Calling(Returned(sessions, END),
                 << ServiceCall("get_tag_preview_stats",
                                << Replace(data, DeleteTagPrefix) >>) >>)

\* BotHandlers.confirm_delete_callback: the tag is what line 529 leaves of
\* the callback data; the used subscriptions of that tag are deleted
confirm_delete_callback(user_id, sessions, data, tg) ==
    IF tg # "ok" THEN Raised(sessions)
    ELSE Calling(Returned(sessions, END),
                 << ServiceCall("delete_used_subscriptions",
                                << Replace(data, ConfirmDeletePrefix) >>) >>)

\* BotHandlers.stats_callback
stats_callback(user_id, sessions, tg) ==
    IF tg # "ok" THEN Raised(sessions)
    ELSE Calling(Returned(sessions, END),
                 << ServiceCall("get_tags_with_stats", <<>>) >>)

\* cancel_command, had it cleared the whole mapping instead of the caller's
\* entry
cancel_command_clears_sessions(user_id, sessions, tg) ==
    IF tg # "ok" THEN Raised(EmptyDict) ELSE Returned(EmptyDict, END)

\* BotHandlers.cancel_command
cancel_command(user_id, sessions, tg) ==
    LET after == IF HasKey(sessions, user_id) THEN DictDel(sessions, user_id)
                 ELSE sessions
    IN  IF tg # "ok" THEN Raised(after) ELSE Returned(after, END)

\* the state promo_conv_handler holds for a caller ("none": no conversation)
ConversationState(conv, user_id) ==
    IF HasKey(conv, user_id) THEN conv[user_id] ELSE "none"

\* ConversationHandler.check_update for promo_conv_handler (main.py lines
\* 78-96): entry points are tried when there is no conversation and, with
\* allow_reentry, when there is one; then the handlers of the current state;
\* then the fallbacks. "none": the conversation handler does not take it.
ConversationHandlerFor(state, kind, data) ==
    IF kind = "callback" /\ data = CreatePromo THEN "create_promo_callback"
    ELSE IF state = "none" THEN "none"
    ELSE IF state \in {WAITING_TAG, WAITING_COUNT} /\ kind = "text"
         THEN IF state = WAITING_TAG THEN "handle_tag_input"
              ELSE "handle_count_input"
    ELSE IF state \in {WAITING_TAG, WAITING_COUNT}
            /\ kind = "callback" /\ data = MainMenu
         THEN "main_menu_callback"
    ELSE IF kind = "command" /\ data = CancelName THEN "cancel_command"
    ELSE IF kind = "callback" /\ data = MainMenu THEN "main_menu_callback"
    ELSE "none"

\* The handler an update goes to, in the order of registration (main.py
\* lines 99-124): /start, /cancel, the conversation, then the callback
\* handlers for main_menu, traffic_<n>, confirm_create, delete_used,
\* delete_tag_..., confirm_delete_... and stats.
HandlerFor(state, kind, data) ==
    IF kind = "command" /\ data = StartName
    THEN [handler |-> "start_command", in_conversation |-> FALSE]
    ELSE IF kind = "command" /\ data = CancelName
    THEN [handler |-> "cancel_command", in_conversation |-> FALSE]
    ELSE IF ConversationHandlerFor(state, kind, data) # "none"
    THEN [handler |-> ConversationHandlerFor(state, kind, data),
          in_conversation |-> TRUE]
    ELSE IF kind = "callback" /\ data = MainMenu
    THEN [handler |-> "main_menu_callback", in_conversation |-> FALSE]
    ELSE IF kind = "callback" /\ data \in TrafficData
    THEN [handler |-> "handle_traffic_limit", in_conversation |-> FALSE]
    ELSE IF kind = "callback" /\ data = ConfirmCreate
    THEN [handler |-> "confirm_create_callback", in_conversation |-> FALSE]
    ELSE IF kind = "callback" /\ data = DeleteUsed
    THEN [handler |-> "delete_used_callback", in_conversation |-> FALSE]
    ELSE IF kind = "callback" /\ StartsWith(data, DeleteTagPrefix)
    THEN [handler |-> "delete_tag_callback", in_conversation |-> FALSE]
    ELSE IF kind = "callback" /\ StartsWith(data, ConfirmDeletePrefix)
    THEN [handler |-> "confirm_delete_callback", in_conversation |-> FALSE]
    ELSE IF kind = "callback" /\ data = Stats
    THEN [handler |-> "stats_callback", in_conversation |-> FALSE]
    ELSE [handler |-> "none", in_conversation |-> FALSE]

\* the call of the chosen handler
RunHandler(handler, user_id, sessions, data, tg) ==
    CASE handler = "start_command" -> start_command(user_id, sessions, tg)
      [] handler = "cancel_command" -> cancel_command(user_id, sessions, tg)
      [] handler = "create_promo_callback" ->
            create_promo_callback(user_id, sessions, tg)
      [] handler = "main_menu_callback" ->
            main_menu_callback(user_id, sessions, tg)
      [] handler = "handle_tag_input" ->
            handle_tag_input(user_id, sessions, data, tg)
      [] handler = "handle_count_input" ->
            handle_count_input(user_id, sessions, data, tg)
      [] handler = "handle_traffic_limit" ->
            handle_traffic_limit(user_id, sessions, data, tg)
      [] handler = "confirm_create_callback" ->
            confirm_create_callback(user_id, sessions, tg)
      [] handler = "delete_used_callback" ->
            delete_used_callback(user_id, sessions, tg)
      [] handler = "delete_tag_callback" ->
            delete_tag_callback(user_id, sessions, data, tg)
      [] handler = "confirm_delete_callback" ->
            confirm_delete_callback(user_id, sessions, data, tg)
      [] handler = "stats_callback" -> stats_callback(user_id, sessions, tg)
      [] handler = "none" -> Returned(sessions, "none")

\* ConversationHandler._update_state: a handler run by the conversation
\* that returns END ends it, another return value becomes its state; a
\* handler that raises, or one run outside the conversation, leaves it
UpdateState(conv, user_id, choice, outcome) ==
    IF ~choice.in_conversation \/ outcome.raised THEN conv
    ELSE IF outcome.returned = END
         THEN (IF HasKey(conv, user_id) THEN DictDel(conv, user_id) ELSE conv)
         ELSE DictPut(conv, user_id, outcome.returned)

\* Application.process_update for one update of a caller
ProcessUpdate(user_id, kind, data, tg) ==
    \E state \in { ConversationState(conversations, user_id) } :
    \E choice \in { HandlerFor(state, kind, data) } :
    \E outcome \in { RunHandler(choice.handler, user_id, user_sessions, data, tg) } :
        /\ user_sessions' = outcome.user_sessions
        /\ conversations' = UpdateState(conversations, user_id, choice, outcome)
        /\ lastUpdate' =
             [kind |-> kind, user_id |-> user_id, data |-> data,
              handler |-> choice.handler,
              in_conversation |-> choice.in_conversation,
              state_before |-> state,
              had_session |-> HasKey(user_sessions, user_id),
              session_before |-> IF HasKey(user_sessions, user_id)
                                 THEN user_sessions[user_id] ELSE EmptyDict,
              telegram |-> tg,
              raised |-> outcome.raised,
              returned |-> outcome.returned,
              service_calls |-> outcome.calls,
              denied |-> (choice.handler = "start_command" /\ ~_is_admin(user_id))]
        /\ UNCHANGED <<uuidPrefix, codecVars, scanVars, createVars, configVars,
                          extractVars>>

InitBot ==
    /\ uuidPrefix = DefaultPrefix
    /\ CodecIdle
    /\ ScanIdle
    /\ CreateIdle
    /\ BotIdle
    /\ ExtractIdle
    /\ ConfigIdle

\* the commands with a handler (main.py lines 99-100)
CommandNames == {StartName, CancelName}

\* a caller sends /start or /cancel
Command(user_id, name, tg) ==
    /\ name \in CommandNames
    /\ ProcessUpdate(user_id, "command", name, tg)

\* a caller sends a text message that is not a command
TextMessage(user_id, text, tg) ==
    /\ text \in MessageTexts
    /\ ProcessUpdate(user_id, "text", text, tg)

\* a caller presses a button
CallbackQuery(user_id, data, tg) ==
    /\ data \in CallbackData
    /\ ProcessUpdate(user_id, "callback", data, tg)

NextBot ==
    \/ \E user_id \in Callers, name \in CommandNames, tg \in TelegramOutcomes :
          Command(user_id, name, tg)
    \/ \E user_id \in Callers, text \in MessageTexts, tg \in TelegramOutcomes :
          TextMessage(user_id, text, tg)
    \/ \E user_id \in Callers, data \in CallbackData, tg \in TelegramOutcomes :
          CallbackQuery(user_id, data, tg)

SpecBot == InitBot /\ [][NextBot]_vars

----------------------------------------------------------------------------
(* Configuration parsing: _parse_inbound_ids of src/config.py *)

\* s.split(sep) for a one-character separator
RECURSIVE SplitOn(_, _)
SplitOn(s, sep) ==
    IF \A k \in 1..Len(s) : s[k] # sep
    THEN <<s>>
    ELSE LET k == CHOOSE k \in 1..Len(s) :
                     /\ s[k] = sep
                     /\ \A j \in 1..(k-1) : s[j] # sep
         IN  <<SubSeq(s, 1, k-1)>> \o SplitOn(SubSeq(s, k+1, Len(s)), sep)

\* Python values of the returned list: a str, an int
PyStr(s) == [type |-> "str", chars |-> s]
PyInt(n) == [type |-> "int", value |-> n]

\* the loop of lines 17-25 over the parts of the split
RECURSIVE InboundIdsOf(_)
InboundIdsOf(parts) ==
    IF parts = <<>> THEN <<>>
    ELSE LET x == Strip(Head(parts))
         IN  IF x = <<>> THEN InboundIdsOf(Tail(parts))
             ELSE <<PyStr(x)>> \o InboundIdsOf(Tail(parts))

\* config._parse_inbound_ids
_parse_inbound_ids(env) ==
    IF env = <<>> THEN <<PyStr(<<"1">>)>>
    ELSE LET ids == InboundIdsOf(SplitOn(env, ","))
         IN  IF ids # <<>> THEN ids ELSE <<PyStr(<<"1">>)>>

\* the characters DEFAULT_INBOUND_IDS values are drawn from
EnvAlphabet == {"1", "3", ",", " ", "b"}

\* the values of the parsing test (test_config.py lines 20-28) that fit no
\* drawn length
EnvMixed == <<"1",",","b","9","-","f","2",",","3">>
EnvSpaced == <<" "," ","1"," "," ",","," "," ","2"," "," ">>

EnvInputs == SeqsUpTo(EnvAlphabet, MaxEnvLen) \cup {EnvMixed, EnvSpaced}

InitConfig ==
    /\ uuidPrefix = DefaultPrefix
    /\ CodecIdle
    /\ ScanIdle
    /\ CreateIdle
    /\ BotIdle
    /\ ExtractIdle
    /\ env_value \in EnvInputs
    /\ inbound_ids = <<>>
    /\ cfgpc = "input"

\* Config.DEFAULT_INBOUND_IDS = _parse_inbound_ids(os.getenv(...)) (line 60)
ParseInboundIds ==
    /\ cfgpc = "input"
    /\ inbound_ids' = _parse_inbound_ids(env_value)
    /\ cfgpc' = "parsed"
    /\ UNCHANGED <<uuidPrefix, codecVars, scanVars, createVars, botVars, extractVars,
                   env_value>>

NextConfig == ParseInboundIds

SpecConfig == InitConfig /\ [][NextConfig]_vars

----------------------------------------------------------------------------
(* The artifact: the content FileManager.save_subscription_file            *)
(* (src/utils.py) writes for the arguments create_promo_users hands it     *)

\* the character of a decimal digit
DigitChar(d) ==
    CASE d = 0 -> "0" [] d = 1 -> "1" [] d = 2 -> "2" [] d = 3 -> "3"
      [] d = 4 -> "4" [] d = 5 -> "5" [] d = 6 -> "6" [] d = 7 -> "7"
      [] d = 8 -> "8" [] d = 9 -> "9"

\* str(n) of a natural number, as the f-string of line 78 formats it
RECURSIVE StrOfNat(_)
StrOfNat(n) ==
    IF n < 10 THEN <<DigitChar(n)>>
    ELSE StrOfNat(n \div 10) \o <<DigitChar(n % 10)>>

\* "# Promo Campaign: "
PromoCampaignText == <<"#"," ","P","r","o","m","o"," ","C","a","m","p","a","i","g","n",":"," ">>
\* "# Created: "
CreatedText == <<"#"," ","C","r","e","a","t","e","d",":"," ">>
\* datetime.now().strftime('%Y-%m-%d %H:%M:%S') at the time of the call
CreatedStamp == <<"2","0","2","5","-","0","1","-","0","1"," ","0","0",":","0","0",":","0","0">>
\* "# Total subscriptions: "
TotalSubscriptionsText == <<"#"," ","T","o","t","a","l"," ","s","u","b","s","c","r","i","p","t","i","o","n","s",":"," ">>
\* "# Subscription Links:"
SubscriptionLinksText == <<"#"," ","S","u","b","s","c","r","i","p","t","i","o","n"," ","L","i","n","k","s",":">>

\* lines 75-84: the header lines, then the links
content_lines(tag, links) ==
    << PromoCampaignText \o tag,
       CreatedText \o CreatedStamp,
       TotalSubscriptionsText \o StrOfNat(Len(links)),
       <<>>,
       SubscriptionLinksText,
       <<>> >>
    \o links

\* "\n".join(lines)
RECURSIVE JoinLines(_)
JoinLines(lines) ==
    IF lines = <<>> THEN <<>>
    ELSE IF Len(lines) = 1 THEN lines[1]
    ELSE lines[1] \o <<"\n">> \o JoinLines(Tail(lines))

\* line 85: the content written to the file
FileContent(tag, links) ==
    JoinLines(content_lines(tag, links))

----------------------------------------------------------------------------
(* Properties of the tag codec, checked under SpecCodec *)

\* C5: the tag extracted from the generated name prefix + suffix + '-' + tag
\* equals the tag the name was generated with, for every configured prefix.
C5_RoundTrip ==
    cdpc = "extracted" => cdExtracted = cdTag

\* the set [A-Za-z0-9_-] of the tag grammar
TagGrammarChars ==
    { "a","b","c","d","e","f","g","h","i","j","k","l","m","n","o","p","q",
      "r","s","t","u","v","w","x","y","z",
      "A","B","C","D","E","F","G","H","I","J","K","L","M","N","O","P","Q",
      "R","S","T","U","V","W","X","Y","Z",
      "0","1","2","3","4","5","6","7","8","9","_","-" }

C9_OverLongTagRejected ==
    (cdpc # "input" /\ cdTag = OverLongTag) => ~cdValid

----------------------------------------------------------------------------
(* Properties of the scan routines, checked under SpecScan *)

\* used, as the classification rule states it: status not ACTIVE, or a
\* quota above zero that the consumed traffic has reached
ClassifiedUsed(user) ==
    \/ user.status # "ACTIVE"
    \/ (user.trafficLimitBytes > 0
        /\ user.usedTrafficBytes >= user.trafficLimitBytes)

\* positions of the scanned users that carry tag t
TaggedPositions(t) ==
    { i \in 1..Len(scanned) :
        /\ StartsWith(scanned[i].username, uuidPrefix)
        /\ ExtractTag(scanned[i].username, uuidPrefix) = t }

\* C3: delete_used_subscriptions(tag) passes to delete_user only credentials
\* that, in the scan of that call, carry the prefix, have the tag of the
\* argument and are used; active ones, other tags and names outside the
\* convention are never passed.
C3_DeleteOnlyUsedOfTag ==
    scanOp = "delete_used_subscriptions" =>
        /\ \A k \in 1..Len(deleteCalls) :
              \E i \in TaggedPositions(scanTag) :
                 /\ scanned[i].uuid = deleteCalls[k].uuid
                 /\ ClassifiedUsed(scanned[i])
        /\ \A i \in 1..Len(scanned) :
              (\/ i \notin TaggedPositions(scanTag)
               \/ ~ClassifiedUsed(scanned[i]))
              => \A k \in 1..Len(deleteCalls) : deleteCalls[k].uuid # scanned[i].uuid

\* the retirement scenario: of 4 summer credentials the 2 used ones were
\* passed to delete_user and (2, 4) was returned
C3_Witness ==
    /\ scanOp = "delete_used_subscriptions"
    /\ scanned = ScenarioRetire
    /\ scanTag = TagSummer
    /\ Len(deleteCalls) = 2
    /\ deleteCalls[1].uuid = <<"u","1">>
    /\ deleteCalls[2].uuid = <<"u","4">>
    /\ scanResult = [raised |-> FALSE, value |-> <<2, 4>>]

\* C4: the result is (number of delete calls that succeeded, number of
\* scanned credentials of the tag); every used credential of the tag with an
\* identifier gets its delete call whatever the earlier calls did, one
\* without identifier gets none; no credential of the tag gives (0, 0) and
\* no delete call.
C4_DeleteCounts ==
    (scanOp = "delete_used_subscriptions" /\ ~scanResult.raised) =>
        LET mine == TaggedPositions(scanTag)
            due == { i \in mine : ClassifiedUsed(scanned[i]) /\ scanned[i].uuid # None }
            succeeded == { k \in 1..Len(deleteCalls) : ~deleteCalls[k].raised }
        IN  /\ scanResult.value = <<Cardinality(succeeded), Cardinality(mine)>>
            /\ Len(deleteCalls) = Cardinality(due)
            /\ \A i \in due : \E k \in 1..Len(deleteCalls) :
                  deleteCalls[k].uuid = scanned[i].uuid
            /\ mine = {} => (scanResult.value = <<0, 0>> /\ deleteCalls = <<>>)

\* a delete call raised, a used credential had no identifier, and the delete
\* call of the credential after them still ran and succeeded: (1, 3)
C4_Witness ==
    /\ scanOp = "delete_used_subscriptions"
    /\ scanned = ScenarioNoIdentifier
    /\ scanTag = TagSummer
    /\ Len(deleteCalls) = 2
    /\ deleteCalls[1].raised
    /\ ~deleteCalls[2].raised
    /\ scanResult = [raised |-> FALSE, value |-> <<1, 3>>]

CountedUsed(user) ==
    ~(user.status = "ACTIVE"
      /\ (user.trafficLimitBytes = 0
          \/ user.usedTrafficBytes < user.trafficLimitBytes))

\* C10: get_tags_with_stats() returns exactly one entry per distinct tag of
\* the credentials of the naming convention; total, used and active of an
\* entry count the credentials of that tag, those the routine classifies
\* used and those it classifies active; other credentials are in no entry.
C10_StatsPerTag ==
    scanOp = "get_tags_with_stats" =>
        LET entries == scanResult.value
            tags == { ExtractTag(scanned[i].username, uuidPrefix) :
                        i \in { j \in 1..Len(scanned) :
                                  /\ StartsWith(scanned[j].username, uuidPrefix)
                                  /\ Len(Split(scanned[j].username)) >= 3 } }
        IN  /\ { entries[k].tag : k \in 1..Len(entries) } = tags
            /\ Len(entries) = Cardinality(tags)
            /\ \A k \in 1..Len(entries) :
                  LET mine == TaggedPositions(entries[k].tag)
                  IN  /\ entries[k].total = Cardinality(mine)
                      /\ entries[k].used =
                            Cardinality({ i \in mine : CountedUsed(scanned[i]) })
                      /\ entries[k].active =
                            Cardinality({ i \in mine : ~CountedUsed(scanned[i]) })

\* the statistics scenario: summer 2/0/2 and winter 1/1/0
C10_Witness ==
    /\ scanOp = "get_tags_with_stats"
    /\ scanned = ScenarioStats
    /\ scanResult.value =
          << [tag |-> TagSummer, total |-> 2, active |-> 0, used |-> 2],
             [tag |-> TagWinter, total |-> 1, active |-> 1, used |-> 0] >>

----------------------------------------------------------------------------
(* Properties of create_promo_users, checked under Spec *)

\* C1: every create request of the routine, first attempt or retry, asks
\* for a quota of traffic_limit_gb x 1 GiB when traffic_limit_gb > 0 and of
\* 1 GiB otherwise; none leaves the quota unset or 0. (1 GiB is 1024 * 1024
\* of the 1024-byte units the requests' quotas are held in.)
C1_EveryCreateRequestCarriesQuota ==
    \A k \in 1..Len(createCalls) :
       LET body == createCalls[k].body
       IN  /\ "traffic_limit_bytes" \in DOMAIN body
           /\ body.traffic_limit_bytes =
                 IF arg_traffic_limit_gb > 0
                 THEN arg_traffic_limit_gb * (1024 * 1024)
                 ELSE 1024 * 1024

\* credentials of the batch whose two attempts both failed: the retries that
\* did not return, and those whose request could not even be built
FailedCredentials ==
    loop_i
    - Cardinality({ k \in 1..Len(createCalls) : createCalls[k].outcome # "raised" })

\* C2: when creation fails for k of the count credentials and returns a
\* record for the others, create_promo_users returns count - k entries and
\* does not raise; a failure never stops the later credentials.
C2_PartialFailureAbsorbed ==
    /\ (_validate_tag(arg_tag) /\ cpc # "idle") => cpc # "raised"
    /\ (cpc = "returned" /\ arg_count >= 0) =>
          /\ loop_i = arg_count
          /\ (\A k \in 1..Len(createCalls) : createCalls[k].outcome # "empty")
                => Len(subscription_links) = arg_count - FailedCredentials

\* of two credentials the first failed in both attempts, the second was
\* still attempted and created: one entry returned
C2_Witness ==
    /\ cpc = "returned"
    /\ arg_count = 2
    /\ Len(createCalls) = 3
    /\ createCalls[1].outcome = "raised"
    /\ createCalls[2].outcome = "raised"
    /\ createCalls[2].body.username = createCalls[1].body.username
    /\ createCalls[3].outcome = "record"
    /\ Len(subscription_links) = 1


\* C11: when the tag fails validation, create_promo_users raises before any
\* external call: no create-user call, no read call and no artifact file
\* write is made in that invocation.
C11_InvalidTagFailsFast ==
    (cpc # "idle" /\ ~_validate_tag(arg_tag)) =>
        /\ cpc = "raised"
        /\ createCalls = <<>>
        /\ readCalls = <<>>
        /\ fileSaves = <<>>

\* the call with the tag 'a b' and count 2 raised
C11_Witness ==
    /\ cpc = "raised"
    /\ arg_tag = <<"a"," ","b">>
    /\ arg_count = 2
    /\ createCalls = <<>>
    /\ fileSaves = <<>>

\* C12: when count is outside [1, MAX_SUBSCRIPTIONS_PER_REQUEST],
\* create_promo_users fails before any external call: it raises, creates no
\* credential and writes no artifact.
C12_InvalidCountFailsFast ==
    (cpc # "idle" /\ (arg_count < 1 \/ arg_count > MAX_SUBSCRIPTIONS_PER_REQUEST)) =>
        /\ cpc = "raised"
        /\ createCalls = <<>>
        /\ fileSaves = <<>>

\* C13: past the validation of the tag, neither create_promo_users nor
\* delete_used_subscriptions raises to its caller, whatever the panel and the
\* file writer do.
C13_NeverRaisesPastValidation ==
    /\ (cpc # "idle" /\ _validate_tag(arg_tag)) => cpc # "raised"
    /\ scanOp = "delete_used_subscriptions" => ~scanResult.raised

\* the create calls that returned a record
IsRecordCall(c) == c.outcome = "record"

\* C14: when save_subscription_file raises or returns None,
\* create_promo_users still returns, with the links of all the credentials it
\* created (the list handed to the writer, one entry per returned record),
\* and only the file reference of the pair is empty.
C14_LinksSurviveFileFailure ==
    (fileSaves # <<>> /\ fileSaves[1].outcome # "saved") =>
        /\ cpc = "returned"
        /\ file_url = <<>>
        /\ subscription_links = fileSaves[1].subscription_links
        /\ Len(subscription_links) = Len(SelectSeq(createCalls, IsRecordCall))

\* two credentials were created, the writer raised, both links were returned
C14_Witness ==
    /\ cpc = "returned"
    /\ Len(fileSaves) = 1
    /\ fileSaves[1].outcome = "raised"
    /\ Len(subscription_links) = 2
    /\ file_url = <<>>

\* sub occurs in s
Contains(s, sub) ==
    \E i \in 0..(Len(s) - Len(sub)) : SubSeq(s, i + 1, i + Len(sub)) = sub

\* C15: every credential whose create call returned a record has exactly one
\* entry in the result, in order: the link a read resolved, or else a
\* placeholder beginning 'User created: ' that contains the credential's
\* name; every read that gave a link yields a link entry, and no created
\* credential is dropped.
C15_OneEntryPerCreated ==
    \E recs \in { SelectSeq(createCalls, IsRecordCall) } :
        /\ Len(subscription_links) =
              Len(recs) - (IF cpc = "post" /\ ResponseTruthy(cur_response) THEN 1 ELSE 0)
        /\ \A k \in 1..Len(subscription_links) :
              \/ subscription_links[k] = PanelSubscriptionUrl
              \/ /\ StartsWith(subscription_links[k], UserCreatedText)
                 /\ Contains(subscription_links[k], recs[k].body.username)
        /\ Cardinality({ k \in 1..Len(subscription_links) :
                            subscription_links[k] = PanelSubscriptionUrl })
           = Cardinality({ r \in 1..Len(readCalls) : readCalls[r].gave_link })

\* of two created credentials the first got its link from a read, the second
\* had no link after two reads and is reported by name
C15_Witness ==
    /\ cpc = "returned"
    /\ Len(subscription_links) = 2
    /\ subscription_links[1] = PanelSubscriptionUrl
    /\ subscription_links[2] = UserCreatedText \o created_users[2] \o NoSubscriptionUrlText
    /\ Len(readCalls) = 3
    /\ readCalls[1].gave_link
    /\ ~readCalls[2].gave_link
    /\ ~readCalls[3].gave_link

\* a create call made with the full parameter set (lines 108-116); the
\* reduced one (lines 128-132) has no quota field
IsFullCall(c) == "traffic_limit_bytes" \in DOMAIN c.body

\* the positions in the call log of the create calls made for credential i
CallsOfCredential(i) ==
    { k \in 1..Len(createCalls) : createCalls[k].credential = i }

\* credentials whose iteration is over
FinishedCredentials == 0..(loop_i - 1)

\* C22 as stated: per credential at most two create calls with the same
\* name; a reduced-parameter call always directly follows a full-parameter
\* call of the same credential that raised, and every full-parameter call
\* that raised is followed by exactly one reduced-parameter call; a
\* credential whose calls all raised has no result entry and the loop goes
\* on; at most 2 x count create calls in a batch.
C22_RetryOnlyAfterFullCallRaised ==
    /\ \A i \in 0..MaxCount : Cardinality(CallsOfCredential(i)) <= 2
    /\ \A k \in 1..Len(createCalls) :
          ~IsFullCall(createCalls[k]) =>
              /\ k > 1
              /\ IsFullCall(createCalls[k - 1])
              /\ createCalls[k - 1].outcome = "raised"
              /\ createCalls[k - 1].credential = createCalls[k].credential
              /\ createCalls[k - 1].body.username = createCalls[k].body.username
    /\ \A k \in 1..Len(createCalls) :
          ( /\ IsFullCall(createCalls[k])
            /\ createCalls[k].outcome = "raised"
            /\ createCalls[k].credential \in FinishedCredentials ) =>
              /\ k < Len(createCalls)
              /\ ~IsFullCall(createCalls[k + 1])
              /\ createCalls[k + 1].credential = createCalls[k].credential
    /\ Len(createCalls) <= 2 * (IF arg_count > 0 THEN arg_count ELSE 0)

\* C22 (amended): per credential create_promo_users makes at most one
\* full-parameter and at most one reduced-parameter create call, both with
\* the same generated name and the full one first; a reduced-parameter call
\* is made only when the full-parameter attempt of that credential failed
\* (its call raised, or its request could not be built and no full call was
\* made), and at most once; a credential none of whose calls returned has no
\* result entry and does not stop the loop; a batch makes at most 2 x count
\* create calls.
C22_AtMostOneRetryPerCredential ==
    /\ \A i \in 0..MaxCount :
          \E calls \in { CallsOfCredential(i) } :
             /\ Cardinality(calls) <= 2
             /\ Cardinality({ k \in calls : IsFullCall(createCalls[k]) }) <= 1
             /\ Cardinality({ k \in calls : ~IsFullCall(createCalls[k]) }) <= 1
             /\ \A j, k \in calls :
                   /\ createCalls[j].body.username = createCalls[k].body.username
                   /\ (IsFullCall(createCalls[j]) /\ ~IsFullCall(createCalls[k])) =>
                         /\ j < k
                         /\ createCalls[j].outcome = "raised"
             /\ (calls # {}) => i < arg_count
    /\ Len(createCalls) <= 2 * (IF arg_count > 0 THEN arg_count ELSE 0)
    /\ Len(subscription_links) <=
          Cardinality({ i \in 0..MaxCount :
                          \E k \in CallsOfCredential(i) :
                             createCalls[k].outcome = "record" })
    /\ (cpc = "returned" /\ arg_count >= 0) => loop_i = arg_count
    /\ (_validate_tag(arg_tag) /\ cpc # "idle") => cpc # "raised"

\* a batch of two: the first credential was created by the retry after
\* its full call raised, the second made only the reduced call (its full
\* request could not be built) and that call raised, so it has no
\* entry
C22_Witness ==
    /\ cpc = "returned"
    /\ arg_count = 2
    /\ Len(createCalls) = 3
    /\ IsFullCall(createCalls[1]) /\ createCalls[1].outcome = "raised"
    /\ ~IsFullCall(createCalls[2]) /\ createCalls[2].outcome = "record"
    /\ createCalls[2].credential = 0
    /\ createCalls[2].body.username = createCalls[1].body.username
    /\ ~IsFullCall(createCalls[3]) /\ createCalls[3].credential = 1
    /\ createCalls[3].outcome = "raised"
    /\ Len(subscription_links) = 1

\* the positions in the read log of the reads made for credential i
ReadsOfCredential(i) ==
    { r \in 1..Len(readCalls) : readCalls[r].credential = i }

\* C23: for a created credential whose create response carries its uuid,
\* the link resolution reads the user by that uuid; the read by short uuid
\* is made only after the read by uuid gave no link (it raised, or returned
\* no link); and the placeholder entry is reported only when every lookup
\* the response allows (by uuid when it carries one, by short uuid when it
\* carries one) was made and gave no link.
C23_ResolutionReadsByIdentifierFirst ==
    \E recs \in { SelectSeq(createCalls, IsRecordCall) } :
       \A k \in 1..Len(subscription_links) :
          \E resp \in { recs[k].response },
             reads \in { ReadsOfCredential(recs[k].credential) } :
             (resp.type = "object") =>
                /\ (resp.uuid # None) =>
                      \E r \in reads :
                         /\ readCalls[r].method = "get_user_by_uuid"
                         /\ readCalls[r].arg = resp.uuid
                /\ \A r \in reads :
                      (readCalls[r].method = "get_user_by_short_uuid") =>
                         \A q \in reads :
                            (readCalls[q].method = "get_user_by_uuid") =>
                               (q < r /\ ~readCalls[q].gave_link)
                /\ (subscription_links[k] # PanelSubscriptionUrl) =>
                      /\ \A r \in reads : ~readCalls[r].gave_link
                      /\ (resp.uuid # None) =>
                            \E r \in reads :
                               readCalls[r].method = "get_user_by_uuid"
                      /\ (resp.short_uuid # None) =>
                            \E r \in reads :
                               readCalls[r].method = "get_user_by_short_uuid"

\* number of lines of the header the file starts with (lines 75-82)
HeaderLength == 6

\* the positions of the newline characters of a text
NewlinesOf(text) == { p \in 1..Len(text) : text[p] = "\n" }

\* line j of a text whose newlines are at the positions nl: the run between
\* newline j - 1 and newline j
LineAt(text, nl, j) ==
    LET before == { p \in nl : Cardinality({ q \in nl : q < p }) = j - 2 }
        after  == { p \in nl : Cardinality({ q \in nl : q < p }) = j - 1 }
        from   == IF before = {} THEN 1 ELSE (CHOOSE p \in before : TRUE) + 1
        to     == IF after = {} THEN Len(text) ELSE (CHOOSE p \in after : TRUE) - 1
    IN  SubSeq(text, from, to)

\* C24: create_promo_users returns at most count entries (none when count
\* is below 1); it hands the returned list to the file writer once, and the
\* content of a file that is written consists of the header followed by
\* exactly the returned entries, one per line and in the same order, with
\* the header's total equal to the length of the returned list.
C24_ArtifactCoversReturnedEntries ==
    /\ Len(subscription_links) <= (IF arg_count > 0 THEN arg_count ELSE 0)
    /\ Len(fileSaves) <= 1
    /\ (cpc = "returned") => Len(fileSaves) = 1
    /\ (fileSaves # <<>>) =>
          /\ cpc = "returned"
          /\ fileSaves[1].tag = arg_tag
          /\ fileSaves[1].subscription_links = subscription_links
    /\ (fileSaves # <<>> /\ fileSaves[1].outcome = "saved") =>
          /\ file_url = SavedFilePath
          /\ \E text \in { FileContent(fileSaves[1].tag,
                                         fileSaves[1].subscription_links) } :
             \E nl \in { NewlinesOf(text) } :
                /\ Cardinality(nl) + 1 = HeaderLength + Len(subscription_links)
                /\ \A k \in 1..Len(subscription_links) :
                      LineAt(text, nl, HeaderLength + k) = subscription_links[k]
                /\ LineAt(text, nl, 3) = TotalSubscriptionsText
                                            \o StrOfNat(Len(subscription_links))

\* a batch of two was created, one entry a link and one a placeholder, and
\* the file with both was saved
C24_Witness ==
    /\ cpc = "returned"
    /\ arg_count = 2
    /\ Len(subscription_links) = 2
    /\ subscription_links[1] # PanelSubscriptionUrl
    /\ subscription_links[2] = PanelSubscriptionUrl
    /\ Len(fileSaves) = 1
    /\ fileSaves[1].outcome = "saved"
    /\ file_url = SavedFilePath



----------------------------------------------------------------------------
(* Properties of _extract_users_from_response, checked under SpecExtract *)

\* what each of the four wrapper shapes holds, in the order of the claim:
\* attribute response.users, attribute users, dict ['response']['users'],
\* dict ['users']; Absent for a shape the response does not have
ShapeValues(r) ==
    << IF hasattr(r, "response") /\ hasattr(r.fields["response"], "users")
       THEN r.fields["response"].fields["users"] ELSE Absent,
       IF hasattr(r, "users") THEN r.fields["users"] ELSE Absent,
       IF /\ r.type = "dict"
          /\ "response" \in DOMAIN r.fields
          /\ r.fields["response"].type = "dict"
          /\ "users" \in DOMAIN r.fields["response"].fields
       THEN r.fields["response"].fields["users"] ELSE Absent,
       IF r.type = "dict" /\ "users" \in DOMAIN r.fields
       THEN r.fields["users"] ELSE Absent >>

\* a usable sequence: a list with users in it
Usable(v) == v.type = "list" /\ v.items # <<>>

\* the users of the first shape, in that order, that holds a usable sequence
FirstUsable(r) ==
    IF r.type = "none" THEN <<>>
    ELSE LET sv == ShapeValues(r)
             ok == { k \in 1..4 : Usable(sv[k]) }
         IN  IF ok = {} THEN <<>>
             ELSE sv[CHOOSE k \in ok : \A j \in ok : k <= j].items

\* C25: _extract_users_from_response returns the users of the first of the
\* four wrapper shapes, tried in order, that holds a usable sequence, also
\* when an earlier shape is present with None or an empty list; it returns
\* the empty sequence when no shape holds one or the response is empty or
\* absent; and it never raises.
C25_FirstUsableShapeWins ==
    (expc = "done") =>
        /\ ~ex_result.raised
        /\ ex_result.value = FirstUsable(ex_response)

----------------------------------------------------------------------------
(* Properties of the bot, checked under SpecBot *)

\* the caller of the update processed last, that caller's conversation state
\* and session after it
LastCaller == lastUpdate.user_id
StateAfter == ConversationState(conversations, LastCaller)
HasSessionAfter == HasKey(user_sessions, LastCaller)

\* the letters, lower and upper case in the same order
LowerLetters ==
    <<"a","b","c","d","e","f","g","h","i","j","k","l","m",
      "n","o","p","q","r","s","t","u","v","w","x","y","z">>
UpperLetters ==
    <<"A","B","C","D","E","F","G","H","I","J","K","L","M",
      "N","O","P","Q","R","S","T","U","V","W","X","Y","Z">>

\* the normalization the tag prompt promises: letters to upper case,
\* whitespace to underscore
NormalizedChar(c) ==
    IF c = " " THEN "_"
    ELSE IF \E k \in 1..26 : LowerLetters[k] = c
         THEN UpperLetters[CHOOSE k \in 1..26 : LowerLetters[k] = c]
         ELSE c
NormalizedTag(text) == [k \in 1..Len(text) |-> NormalizedChar(text[k])]

\* a message text that is a count within [1, MAX_SUBSCRIPTIONS_PER_REQUEST]
IsValidCountText(text) ==
    /\ IsIntLiteral(Strip(text))
    /\ IntOf(Strip(text)) >= 1
    /\ IntOf(Strip(text)) <= MAX_SUBSCRIPTIONS_PER_REQUEST

\* C16: with every Telegram call succeeding, the promo conversation moves
\* Entry -> WAITING_TAG -> WAITING_TRAFFIC -> WAITING_COUNT ->
\* WAITING_CONFIRMATION -> END: the entry callback, a valid tag message, a
\* traffic selection, a valid count message and the confirmation callback
\* are each handled in the state before them and lead to the state after
\* them, and an active conversation ends only when the caller confirms or
\* cancels.
C16_PromoConversationProgresses ==
    (lastUpdate.kind # "none" /\ lastUpdate.telegram = "ok") =>
        /\ (lastUpdate.kind = "callback" /\ lastUpdate.data = CreatePromo)
              => (lastUpdate.handler = "create_promo_callback"
                  /\ StateAfter = WAITING_TAG)
        /\ (lastUpdate.kind = "text" /\ lastUpdate.state_before = WAITING_TAG
            /\ lastUpdate.had_session
            /\ _validate_tag(NormalizedTag(Strip(lastUpdate.data))))
              => (lastUpdate.handler = "handle_tag_input"
                  /\ StateAfter = WAITING_TRAFFIC)
        /\ (lastUpdate.kind = "callback" /\ lastUpdate.state_before = WAITING_TRAFFIC
            /\ lastUpdate.data \in DOMAIN traffic_map)
              => (lastUpdate.handler = "handle_traffic_limit"
                  /\ StateAfter = WAITING_COUNT)
        /\ (lastUpdate.kind = "text" /\ lastUpdate.state_before = WAITING_COUNT
            /\ IsValidCountText(lastUpdate.data))
              => (lastUpdate.handler = "handle_count_input"
                  /\ StateAfter = WAITING_CONFIRMATION)
        /\ (lastUpdate.kind = "callback"
            /\ lastUpdate.state_before = WAITING_CONFIRMATION
            /\ lastUpdate.data = ConfirmCreate)
              => (lastUpdate.handler = "confirm_create_callback"
                  /\ StateAfter = "none")
        /\ (lastUpdate.state_before # "none" /\ StateAfter = "none")
              => (lastUpdate.kind # "text"
                  /\ lastUpdate.data \in {ConfirmCreate, MainMenu, CancelName})

\* C18: handle_tag_input in WAITING_TAG for a caller with a session: when
\* the normalized text passes _validate_tag, it returns WAITING_TRAFFIC and
\* the session's tag is the normalized text; otherwise it returns
\* WAITING_TAG and stores no tag.
C18_TagInputStoresNormalizedTag ==
    (/\ lastUpdate.kind = "text"
     /\ lastUpdate.handler = "handle_tag_input"
     /\ lastUpdate.state_before = WAITING_TAG
     /\ lastUpdate.had_session) =>
        IF _validate_tag(NormalizedTag(Strip(lastUpdate.data)))
        THEN /\ ~lastUpdate.raised
             /\ lastUpdate.returned = WAITING_TRAFFIC
             /\ HasSessionAfter
             /\ HasKey(user_sessions[LastCaller], "tag")
             /\ user_sessions[LastCaller].tag = NormalizedTag(Strip(lastUpdate.data))
        ELSE /\ ~lastUpdate.raised
             /\ lastUpdate.returned = WAITING_TAG
             /\ HasSessionAfter
             /\ ~HasKey(user_sessions[LastCaller], "tag")

\* C19: once confirm_create_callback has finished for a caller with a
\* session, or the caller has cancelled by /cancel or by the cancel /
\* back-to-main-menu button, the caller has no entry in user_sessions.
C19_SessionRemovedOnCompletionOrCancel ==
    (/\ lastUpdate.kind # "none"
     /\ ~lastUpdate.raised
     /\ \/ lastUpdate.handler = "cancel_command"
        \/ lastUpdate.handler = "main_menu_callback"
        \/ (lastUpdate.handler = "confirm_create_callback" /\ lastUpdate.had_session))
        => ~HasSessionAfter

\* C20: every key of user_sessions is in Config.ADMIN_USER_IDS.
C20_SessionKeysAreAdmins ==
    DOMAIN user_sessions \subseteq ADMIN_USER_IDS

\* the mapping with the entry of one caller only
OwnSessions(sessions, user_id) ==
    [k \in (DOMAIN sessions) \cap {user_id} |-> sessions[k]]

\* two mappings agree on the entry of a caller
SameEntry(a, b, user_id) ==
    /\ HasKey(a, user_id) <=> HasKey(b, user_id)
    /\ HasKey(a, user_id) => a[user_id] = b[user_id]

\* C21: operations of different callers are independent. The handler run
\* for an update of caller A leaves the session entry of every other caller
\* as it was, and what it does (the entry of A it leaves, its return value
\* or exception, its service calls) is what it does when user_sessions
\* holds the entry of A alone: it reads no other entry. This holds for every
\* step, hence under every interleaving of the callers' updates.
C21_HandlersTouchOnlyOwnSession ==
    [][ /\ \A other \in Callers \ {lastUpdate'.user_id} :
              SameEntry(user_sessions, user_sessions', other)
        /\ \E alone \in { RunHandler(lastUpdate'.handler, lastUpdate'.user_id,
                                     OwnSessions(user_sessions, lastUpdate'.user_id),
                                     lastUpdate'.data, lastUpdate'.telegram) } :
              /\ SameEntry(alone.user_sessions, user_sessions', lastUpdate'.user_id)
              /\ alone.raised = lastUpdate'.raised
              /\ alone.returned = lastUpdate'.returned
              /\ alone.calls = lastUpdate'.service_calls
      ]_vars

\* an update of one caller changed that caller's session while another
\* caller holds a session
C21_Witness ==
    /\ lastUpdate.kind # "none"
    /\ lastUpdate.had_session
    /\ (HasSessionAfter => user_sessions[LastCaller] # lastUpdate.session_before)
    /\ \E other \in Callers \ {LastCaller} : HasKey(user_sessions, other)

\* the RemnawaveService methods that change the panel
MutatingMethods == {"create_promo_users", "delete_used_subscriptions"}

\* C26: create_promo_users and delete_used_subscriptions are invoked only
\* while handling an update whose sender is in Config.ADMIN_USER_IDS.
C26_OnlyAdminsMutatePanel ==
    (lastUpdate.kind # "none") =>
        \A k \in 1..Len(lastUpdate.service_calls) :
            lastUpdate.service_calls[k].method \in MutatingMethods
                => _is_admin(lastUpdate.user_id)

\* the states in which the promo conversation waits for the caller
WaitingStates ==
    {WAITING_TAG, WAITING_TRAFFIC, WAITING_COUNT, WAITING_CONFIRMATION}

\* C27: whenever the promo conversation of a caller (in the chat the caller
\* talks to the bot in) is in a waiting state, user_sessions holds an entry
\* for that caller.
C27_WaitingConversationHasSession ==
    \A user_id \in Callers :
        ConversationState(conversations, user_id) \in WaitingStates
            => HasKey(user_sessions, user_id)

ValidProvisioningCall(c) ==
    /\ _validate_tag(c.args[1])
    /\ c.args[2] \in {15, 30, 50, 100}
    /\ c.args[3] \in 1..MAX_SUBSCRIPTIONS_PER_REQUEST

C30_TagRoundTripsThroughCallbackData ==
    (lastUpdate.kind = "callback" /\ lastUpdate.telegram = "ok") =>
        \A t \in PanelTags :
            /\ (lastUpdate.data = DeleteTagPrefix \o t)
                  => (/\ lastUpdate.handler = "delete_tag_callback"
                      /\ lastUpdate.service_calls =
                            << ServiceCall("get_tag_preview_stats", <<t>>) >>)
            /\ (lastUpdate.data = ConfirmDeletePrefix \o t)
                  => (/\ lastUpdate.handler = "confirm_delete_callback"
                      /\ lastUpdate.service_calls =
                            << ServiceCall("delete_used_subscriptions", <<t>>) >>)


----------------------------------------------------------------------------
(* Properties of the configuration parsing, checked under SpecConfig *)

\* what the parsing test expects of one trimmed, non-empty entry: the
\* integer for a run of digits, the string otherwise
ExpectedInboundId(x) ==
    IF \A k \in 1..Len(x) : x[k] \in Digits THEN PyInt(DigitsValue(x)) ELSE PyStr(x)

\* the trimmed, non-empty entries of a comma-separated value, in order
RECURSIVE TrimmedEntries(_)
TrimmedEntries(parts) ==
    IF parts = <<>> THEN <<>>
    ELSE IF Strip(Head(parts)) = <<>> THEN TrimmedEntries(Tail(parts))
    ELSE <<Strip(Head(parts))>> \o TrimmedEntries(Tail(parts))

\* C17: _parse_inbound_ids returns, for the trimmed non-empty entries of
\* the value in order, the integer of a numeric entry and the string of any
\* other, and [1] for an empty value: '1,2,3' -> [1, 2, 3], '1,,3' -> [1, 3],
\* '' -> [1].
C17_InboundIdsTyped ==
    cfgpc = "parsed" =>
        LET entries == TrimmedEntries(SplitOn(env_value, ","))
        IN  IF env_value = <<>>
            THEN inbound_ids = <<PyInt(1)>>
            ELSE entries # <<>> =>
                    /\ Len(inbound_ids) = Len(entries)
                    /\ \A k \in 1..Len(entries) :
                          /\ inbound_ids[k].type = ExpectedInboundId(entries[k]).type
                          /\ inbound_ids[k] = ExpectedInboundId(entries[k])

====
